---- MODULE Spec2Model ----
(***************************************************************************)
(* State-machine model of the word-list pipeline scripts of               *)
(* four-word-networking:                                                   *)
(*   - letter_wordlist_generator.py  (main, alphabet_pass, query_model,    *)
(*     trim_to_target)                        -> specification Spec        *)
(*   - wordlist_openai_improver.py   (refine_wordlist) -> SpecRefine       *)
(*   - data/words_research/verify_dictionary_quality.py                    *)
(*     (DictionaryQualityChecker, main)        -> SpecVerify               *)
(*   - create_all_readable_dictionary.py, create_best_readable_dictionary.py, *)
(*     create_truly_readable_dictionary.py (generate_all_forms) -> SpecForms *)
(*   - create_best_readable_dictionary.py, create_truly_readable_dictionary.py *)
(*     (main)                                  -> SpecBuild                *)
(*   - fix_dictionary_duplicates.py, scripts/fix_dictionary_size.py,        *)
(*     data/words_research/fix_dictionary_count.py -> SpecFix               *)
(*   - data/words_research/filter_with_claude.py (WordFilter) -> SpecFilter  *)
(*   - create_readable_dictionary.py (ReadabilityScorer, main) -> SpecReadable *)
(* Words are sequences of characters, so that strip(), lower(), the        *)
(* regular expressions and the placeholder format are computed, not        *)
(* assumed.  Zipf frequencies and thresholds are integers in units of      *)
(* 0.25 (3.0 is 12 in the source's defaults; the model uses small values). *)
(***************************************************************************)
EXTENDS Integers, Sequences, FiniteSets, TLC

VARIABLES
    \* ---- letter_wordlist_generator.main ----
    opts,           \* argparse.Namespace of the generator
    final_words,    \* Set[str]
    out_file,       \* lines of opts.output
    freq_current,   \* working frequency threshold
    cycle,          \* cycle counter of the while loop
    passes,         \* number of alphabet_pass calls made (history)
    gpc,            \* position of main
    li,             \* index of the letter alphabet_pass is at
    seen,           \* alphabet_pass: seen set of the current letter
    added,          \* alphabet_pass: added_this_pass / main: added
    attempts,       \* query_model: failed attempts of the current call
    wait,           \* query_model: last back-off sleep, seconds
    end_reason,     \* why the while loop ended
    exit_status,    \* process exit status (-1 while running)
    finished        \* TRUE once "Finished with N words" has been printed

genVars == <<opts, final_words, out_file, freq_current, cycle, passes, gpc, li,
             seen, added, attempts, wait, end_reason, exit_status, finished>>

VARIABLES
    \* ---- wordlist_openai_improver.refine_wordlist ----
    ropts,          \* argparse.Namespace of the refiner
    input_file,     \* lines of opts.input
    words,          \* List[str]
    wordset,        \* set(words), as the code maintains it
    bloom,          \* the words added to the BloomFilter
    bloom_fp,       \* the words the BloomFilter reports without their being added
    placeholders,   \* List[str]
    candidates,     \* the words sent to the model
    bi,             \* index of the current batch
    nrec,           \* records of the current payload processed so far
    rattempts,      \* failed attempts of the current API call
    rwait,          \* last back-off sleep, seconds
    log,            \* rows of the change log (None: not opened)
    output,         \* lines of opts.output
    written,        \* TRUE once opts.output has been written
    malformed,      \* number of responses that did not parse
    rend,           \* why refine_wordlist ended
    rpc,            \* position of refine_wordlist
    rstatus         \* process exit status (-1 while running)

refVars == <<ropts, input_file, words, wordset, bloom, bloom_fp, placeholders, candidates,
             bi, nrec, rattempts, rwait, log, output, written, malformed, rend,
             rpc, rstatus>>

VARIABLES
    \* ---- verify_dictionary_quality.main, DictionaryQualityChecker ----
    dictionary_file, \* the file main settles on: [exists, lines]
    self_words,      \* self.words
    word_set,        \* self.word_set
    all_good,        \* run_all_checks: all_good
    found_homophones,    \* the groups check_homophones found
    problematic_words,   \* the words check_problematic_combinations found
    verdict,         \* what run_all_checks returned: "none", "pass", "fail"
    vpc,             \* position of main / run_all_checks
    vstatus          \* process exit status (-1 while running)

verVars == <<dictionary_file, self_words, word_set, all_good, found_homophones,
             problematic_words, verdict, vpc, vstatus>>

VARIABLES
    \* ---- a call of generate_all_forms from a create_*_dictionary.main ----
    variant,        \* the script: "all", "best" or "truly"
    base,           \* the base word passed in
    forms,          \* the set returned
    fpc             \* position: "call", "returned"

formVars == <<variant, base, forms, fpc>>

VARIABLES
    \* ---- create_best_readable_dictionary.main and ----
    \* ---- create_truly_readable_dictionary.main     ----
    script,         \* the script that runs: "best" or "truly"
    csv,            \* data/word_readability_scores.csv: [exists, words]
    top_words,      \* create_best: top_words
    all_words,      \* all_words
    word_list,      \* word_list
    saved,          \* the lines of the dictionary file written
    bpc             \* position of main

buildVars == <<script, csv, top_words, all_words, word_list, saved, bpc>>

VARIABLES
    \* ---- fix_dictionary_duplicates.main, scripts/fix_dictionary_size and ----
    \* ---- data/words_research/fix_dictionary_count                        ----
    tool,           \* the script that runs: "duplicates", "size" or "count"
    dict_lines,     \* lines of data/human_readable_word_list_65k.txt
    freq_list,      \* cleaned_frequency_list.txt: [exists, lines]
    alt_list,       \* top_english_words_lower_100000.txt: [exists, lines]
    fix_words,      \* unique_words / current_words, final_words / words
    replacement_words, \* replacement_words
    words_needed,   \* words_needed
    current_count,  \* the number of words read
    printed,        \* the kinds of message printed
    wrote,          \* the dictionary file was opened for writing
    xpc             \* position of the script

fixVars == <<tool, dict_lines, freq_list, alt_list, fix_words, replacement_words, words_needed, current_count, printed, wrote, xpc>>

VARIABLES
    \* ---- data/words_research/filter_with_claude.WordFilter ----
    all_words_in,   \* self.all_words
    current_words,  \* current_words of run_multi_stage_filtering
    intermediate,   \* the stages save_intermediate was called for
    wpc             \* position of run_multi_stage_filtering

filterVars == <<all_words_in, current_words, intermediate, wpc>>

VARIABLES
    \* ---- create_readable_dictionary.py ----
    entry,          \* what runs: "main", or one call of calculate_readability_score
    google_file,    \* data/google-10000-english.txt: [exists, lines]
    alpha_file,     \* data/words_alpha.txt: [exists, lines]
    dale_chall_words, \* scorer.dale_chall_words after download_dale_chall_list
    words_with_position, \* words_with_position
    scored_words,   \* scored_words
    selected,       \* top_words['word'].tolist()
    output_words,   \* output_words, as written to the dictionary file
    said,           \* the kinds of message printed
    ypc             \* position of main

readableVars == <<entry, google_file, alpha_file, dale_chall_words, words_with_position, scored_words, selected, output_words, said, ypc>>

\* the variables each program leaves alone
nonGenVars   == <<refVars, verVars, formVars, buildVars, fixVars, filterVars, readableVars>>
nonRefVars   == <<genVars, verVars, formVars, buildVars, fixVars, filterVars, readableVars>>
nonVerVars   == <<genVars, refVars, formVars, buildVars, fixVars, filterVars, readableVars>>
nonFormVars  == <<genVars, refVars, verVars, buildVars, fixVars, filterVars, readableVars>>
nonBuildVars == <<genVars, refVars, verVars, formVars, fixVars, filterVars, readableVars>>
nonFixVars == <<genVars, refVars, verVars, formVars, buildVars, filterVars, readableVars>>
nonFilterVars == <<genVars, refVars, verVars, formVars, buildVars, fixVars, readableVars>>
nonReadableVars == <<genVars, refVars, verVars, formVars, buildVars, fixVars, filterVars>>

vars == <<genVars, refVars, verVars, formVars, buildVars, fixVars, filterVars, readableVars>>

-----------------------------------------------------------------------------
(* Characters and strings                                                  *)

\* the characters of the model, in code-point order
CharSeq ==
    <<" ", "-", "0", "1", "2", "3", "4", "5", "6", "7", "8", "9", "A", "D", "_",
      "a", "b", "c", "d", "e", "f", "g", "h", "i", "j", "k", "l", "m",
      "n", "o", "p", "q", "r", "s", "t", "u", "v", "w", "x", "y", "z", "é">>

Ord(c) == CHOOSE i \in 1..Len(CharSeq) : CharSeq[i] = c

\* a-z, the upper-case letters of the model, whitespace, and the letters
\* outside ASCII (lower case)
LowerChars ==
    {"a", "b", "c", "d", "e", "f", "g", "h", "i", "j", "k", "l", "m",
     "n", "o", "p", "q", "r", "s", "t", "u", "v", "w", "x", "y", "z"}
UpperChars == {"A", "D"}
SpaceChars == {" "}
NonAsciiLetters == {"é"}

\* str.lower() on one character
LowerChar(c) == IF c = "A" THEN "a" ELSE IF c = "D" THEN "d" ELSE c

\* str.lower()
Lower(s) == [i \in 1..Len(s) |-> LowerChar(s[i])]

\* str.strip(): drop leading and trailing whitespace
RECURSIVE LStrip(_)
LStrip(s) == IF s # <<>> /\ Head(s) \in SpaceChars THEN LStrip(Tail(s)) ELSE s

RECURSIVE RStrip(_)
RStrip(s) ==
    IF s # <<>> /\ s[Len(s)] \in SpaceChars
    THEN RStrip(SubSeq(s, 1, Len(s) - 1))
    ELSE s

Strip(s) == RStrip(LStrip(s))

\* str.isalpha()
IsAlpha(s) ==
    /\ s # <<>>
    /\ \A i \in 1..Len(s) : s[i] \in LowerChars \cup UpperChars \cup NonAsciiLetters

\* str.isupper(): at least one cased character and no lowercase one
IsUpper(s) ==
    /\ \E i \in 1..Len(s) : s[i] \in UpperChars
    /\ \A i \in 1..Len(s) : s[i] \notin LowerChars \cup NonAsciiLetters

\* str.startswith(letter)
StartsWith(s, c) == s # <<>> /\ s[1] = c

\* Python's ordering of str: lexicographic by code point
RECURSIVE StrLess(_, _)
StrLess(s, t) ==
    IF t = <<>> THEN FALSE
    ELSE IF s = <<>> THEN TRUE
    ELSE IF Head(s) # Head(t) THEN Ord(Head(s)) < Ord(Head(t))
    ELSE StrLess(Tail(s), Tail(t))

\* the words the model's inputs are built from
ab   == <<"a", "b">>
abb  == <<"a", "b", "b">>
ba   == <<"b", "a">>
damn == <<"d", "a", "m", "n">>
a_b  == <<"a", "-", "b">>
Ab   == <<"A", "b">>
bb   == <<"b", "b">>
bab  == <<"b", "a", "b">>

\* wordfreq.zipf_frequency(w, "en"), in units of 0.25; 0 for an unknown word
Zipf(w) ==
    CASE w = ab   -> 6
      [] w = ba   -> 4
      [] w = abb  -> 3
      [] w = damn -> 6
      [] w = bb   -> 5
      [] w = a_b  -> 5
      [] w = bab  -> 4
      [] OTHER    -> 0

\* sorted(S): the elements of a set of strings in ascending order
RECURSIVE Sorted(_)
Sorted(S) ==
    IF S = {} THEN <<>>
    ELSE LET m == CHOOSE x \in S : \A y \in S \ {x} : StrLess(x, y)
         IN  <<m>> \o Sorted(S \ {m})

\* the set of elements of a sequence
Range(s) == {s[i] : i \in 1..Len(s)}

\* all sequences over S of length at most n
SeqsUpTo(S, n) == UNION {[1..k -> S] : k \in 0..n}

-----------------------------------------------------------------------------
(* letter_wordlist_generator.py                                            *)

\* bound on the lines of one model response
MaxRespLines == 2

\* make_word_re(min_len, max_len).fullmatch(word): ^[a-z]{min,max}$
WordReMatch(w, min_len, max_len) ==
    /\ Len(w) >= min_len
    /\ Len(w) <= max_len
    /\ \A i \in 1..Len(w) : w[i] \in LowerChars

\* DEFAULT_BANNED, reduced to the one entry the model's words can hit
DEFAULT_BANNED == {damn}

is_valid(word, freq_threshold, banned, min_len, max_len, allow_proper) ==
    /\ word \notin banned
    /\ WordReMatch(word, min_len, max_len)
    /\ ~(Zipf(word) < freq_threshold)
    /\ ~(~allow_proper /\ word # <<>> /\ word[1] \in UpperChars)

\* the lines a model response can hold
RespLines == {<<" ", "A", "b">>, ba, damn, a_b}

\* the contents opts.output can have before the run (<<>>: no file)
InitialFiles ==
    {<<>>, <<ab, ab, abb>>, <<Ab, a_b, <<"b", "a", " ">>>>, <<ba, bab, ab>>}

\* the command lines of the model: every combination under a cycle guard
GuardedOptions ==
    [ target_size    : {0, 2},
      max_cycles     : {1, 2},
      max_retries    : {0, 2},
      per_letter_max : {1, 3},
      min_length     : {2},
      max_length     : {4},
      allow_proper_nouns : {FALSE},
      auto_loosen    : BOOLEAN,
      freq_threshold : {6},
      loosen_step    : {2, 3},
      min_freq       : {3} ]

\* the command lines of the model with the cycle guard switched off
UnguardedOptions ==
    [ target_size    : {0, 2},
      max_cycles     : {0},
      max_retries    : {2},
      per_letter_max : {1},
      min_length     : {2},
      max_length     : {4},
      allow_proper_nouns : {FALSE},
      auto_loosen    : {TRUE},
      freq_threshold : {6},
      loosen_step    : {3},
      min_freq       : {3} ]

\* a command line whose --loosen-step is negative: argparse takes any float
\* and main never validates it
NegativeStepOptions ==
    [ target_size    : {2},
      max_cycles     : {2},
      max_retries    : {2},
      per_letter_max : {1},
      min_length     : {2},
      max_length     : {4},
      allow_proper_nouns : {FALSE},
      auto_loosen    : {TRUE},
      freq_threshold : {6},
      loosen_step    : {-3},
      min_freq       : {3} ]

Options == GuardedOptions \cup UnguardedOptions \cup NegativeStepOptions

\* the alphabet main passes to alphabet_pass, cut to the model's letters
Letters == <<"a", "b">>

GenInit ==
    /\ opts \in Options
    /\ \E f \in InitialFiles :
          /\ out_file = f
          \* main, lines 251-253: resume from an existing output file
          /\ final_words = {Strip(f[i]) : i \in {j \in 1..Len(f) : Strip(f[j]) # <<>>}}
    /\ freq_current = opts.freq_threshold
    /\ cycle = 0
    /\ passes = 0
    /\ gpc = "cycle"
    /\ li = 0
    /\ seen = {}
    /\ added = 0
    /\ attempts = 0
    /\ wait = 0
    /\ end_reason = "none"
    /\ exit_status = -1
    /\ finished = FALSE

\* mutant of CycleLimitHit: the guard trips one cycle late
CycleLimitHitLate(c) == opts.max_cycles # 0 /\ c > opts.max_cycles + 1

\* main, line 261: the max_cycles guard on cycle number c
CycleLimitHit(c) == opts.max_cycles # 0 /\ c > opts.max_cycles

\* main, line 277: the target test after a pass
TargetHit == opts.target_size # 0 /\ Cardinality(final_words) >= opts.target_size

\* mutant of CannotLoosen: loosening stops only at the floor itself
CannotLoosenAtFloorOnly ==
    \/ ~opts.auto_loosen
    \/ freq_current <= opts.min_freq

\* main, line 283: the stalled run cannot be loosened
CannotLoosen ==
    \/ ~opts.auto_loosen
    \/ freq_current - opts.loosen_step < opts.min_freq

\* mutant of Loosened: the threshold is clamped to the floor
LoosenedToFloor(f) == opts.min_freq

\* main, line 286: the relaxed threshold
Loosened(f) == f - opts.loosen_step

\* main, lines 260-263: the cycle guard trips, the loop is left
CycleAbort ==
    /\ gpc = "cycle"
    /\ UNCHANGED nonGenVars
    /\ CycleLimitHit(cycle + 1)
    /\ cycle' = cycle + 1
    /\ end_reason' = "max_cycles"
    /\ gpc' = "after_loop"
    /\ UNCHANGED <<opts, final_words, out_file, freq_current, passes, li, seen,
                   added, attempts, wait, exit_status, finished>>

\* main, lines 260-266 and alphabet_pass, line 184: a pass starts
StartPass ==
    /\ gpc = "cycle"
    /\ UNCHANGED nonGenVars
    /\ ~CycleLimitHit(cycle + 1)
    /\ cycle' = cycle + 1
    /\ passes' = passes + 1
    /\ added' = 0
    /\ li' = 1
    /\ gpc' = "letter"
    /\ UNCHANGED <<opts, final_words, out_file, freq_current, seen, attempts,
                   wait, end_reason, exit_status, finished>>

\* alphabet_pass, line 186: the words of final_words under a letter
LetterWords(letter) == {w \in final_words : StartsWith(w, letter)}

\* alphabet_pass, lines 185-190: the letter is already at its cap
SkipLetter ==
    /\ gpc = "letter"
    /\ UNCHANGED nonGenVars
    /\ li <= Len(Letters)
    /\ Cardinality(LetterWords(Letters[li])) >= opts.per_letter_max
    /\ li' = li + 1
    /\ UNCHANGED <<opts, final_words, out_file, freq_current, cycle, passes, gpc,
                   seen, added, attempts, wait, end_reason, exit_status, finished>>

\* alphabet_pass, lines 185-192: the while loop of a letter is entered
EnterLetter ==
    /\ gpc = "letter"
    /\ UNCHANGED nonGenVars
    /\ li <= Len(Letters)
    /\ Cardinality(LetterWords(Letters[li])) < opts.per_letter_max
    /\ seen' = LetterWords(Letters[li])
    /\ attempts' = 0
    /\ wait' = 0
    /\ gpc' = "query"
    /\ UNCHANGED <<opts, final_words, out_file, freq_current, cycle, passes, li,
                   added, end_reason, exit_status, finished>>

\* mutant of MayAttempt: one attempt more than max_retries
MayAttemptOnceMore(a, retries) == a <= retries

\* query_model, line 156, and refine_wordlist, line 175: range(1, retries + 1)
\* has an attempt left after a failed ones
MayAttempt(a, retries) == a < retries

\* query_model, line 165: the back-off after failed attempt number a
Backoff(a) == 2 ^ a

\* alphabet_pass, lines 198-207: the new words of a response, in line order;
\* final_words and seen are not updated while the batch is collected
NewBatch(text) ==
    LET norm == [i \in 1..Len(text) |-> Lower(Strip(text[i]))]
        Ok(w) == /\ w # <<>>
                 /\ w \notin final_words
                 /\ w \notin seen
                 /\ is_valid(w, freq_current, DEFAULT_BANNED, opts.min_length,
                             opts.max_length, opts.allow_proper_nouns)
    IN  SelectSeq(norm, Ok)

\* query_model, line 163, and alphabet_pass, line 195: the stripped text is empty
EmptyText(text) == \A i \in 1..Len(text) : Strip(text[i]) = <<>>

\* query_model, lines 156-163, and alphabet_pass, lines 194-217: a call
\* answers and the response is processed
QueryOk ==
    /\ gpc = "query"
    /\ UNCHANGED nonGenVars
    /\ MayAttempt(attempts, opts.max_retries)
    /\ \E text \in SeqsUpTo(RespLines, MaxRespLines) :
          LET batch == IF EmptyText(text) THEN <<>> ELSE NewBatch(text)
              seen2 == seen \cup Range(batch)
          IN  /\ final_words' = final_words \cup Range(batch)
              /\ out_file' = out_file \o batch
              /\ added' = added + Len(batch)
              /\ IF batch # <<>> /\ Cardinality(seen2) < opts.per_letter_max
                 THEN /\ seen' = seen2
                      /\ UNCHANGED <<li, gpc>>
                 ELSE /\ seen' = {}
                      /\ li' = li + 1
                      /\ gpc' = "letter"
    /\ attempts' = 0
    /\ wait' = 0
    /\ UNCHANGED <<opts, freq_current, cycle, passes, end_reason, exit_status,
                   finished>>

\* query_model, lines 164-167: an attempt raises OpenAIError and is retried
QueryError ==
    /\ gpc = "query"
    /\ UNCHANGED nonGenVars
    /\ MayAttempt(attempts, opts.max_retries)
    /\ attempts' = attempts + 1
    /\ wait' = Backoff(attempts + 1)
    /\ UNCHANGED <<opts, final_words, out_file, freq_current, cycle, passes, gpc,
                   li, seen, added, end_reason, exit_status, finished>>

\* query_model, line 168: every attempt failed, RuntimeError ends the process
QueryRaise ==
    /\ gpc = "query"
    /\ UNCHANGED nonGenVars
    /\ ~MayAttempt(attempts, opts.max_retries)
    /\ gpc' = "done"
    /\ end_reason' = "api_failure"
    /\ exit_status' = 1
    /\ UNCHANGED <<opts, final_words, out_file, freq_current, cycle, passes, li,
                   seen, added, attempts, wait, finished>>

\* alphabet_pass, line 219: the pass returns added_this_pass
PassReturn ==
    /\ gpc = "letter"
    /\ UNCHANGED nonGenVars
    /\ li > Len(Letters)
    /\ gpc' = "endpass"
    /\ UNCHANGED <<opts, final_words, out_file, freq_current, cycle, passes, li,
                   seen, added, attempts, wait, end_reason, exit_status, finished>>

\* main, lines 277-279
TargetReached ==
    /\ gpc = "endpass"
    /\ UNCHANGED nonGenVars
    /\ TargetHit
    /\ end_reason' = "target"
    /\ gpc' = "after_loop"
    /\ UNCHANGED <<opts, final_words, out_file, freq_current, cycle, passes, li,
                   seen, added, attempts, wait, exit_status, finished>>

\* main, lines 281-285
Stall ==
    /\ gpc = "endpass"
    /\ UNCHANGED nonGenVars
    /\ ~TargetHit
    /\ added = 0
    /\ CannotLoosen
    /\ end_reason' = "stalled"
    /\ gpc' = "after_loop"
    /\ UNCHANGED <<opts, final_words, out_file, freq_current, cycle, passes, li,
                   seen, added, attempts, wait, exit_status, finished>>

\* main, lines 281-287
Relax ==
    /\ gpc = "endpass"
    /\ UNCHANGED nonGenVars
    /\ ~TargetHit
    /\ added = 0
    /\ ~CannotLoosen
    /\ freq_current' = Loosened(freq_current)
    /\ gpc' = "cycle"
    /\ UNCHANGED <<opts, final_words, out_file, cycle, passes, li, seen, added,
                   attempts, wait, end_reason, exit_status, finished>>

\* main, lines 259 and 281: the pass added words, the next cycle follows
NextCycle ==
    /\ gpc = "endpass"
    /\ UNCHANGED nonGenVars
    /\ ~TargetHit
    /\ added # 0
    /\ gpc' = "cycle"
    /\ UNCHANGED <<opts, final_words, out_file, freq_current, cycle, passes, li,
                   seen, added, attempts, wait, end_reason, exit_status, finished>>

\* mutant of ScoredLess: the sort key is the word text alone
ScoredLessByText(x, y) == StrLess(x, y)

\* the sort key of trim_to_target: the tuple (zipf_frequency(w), w)
ScoredLess(x, y) ==
    \/ Zipf(x) < Zipf(y)
    \/ Zipf(x) = Zipf(y) /\ StrLess(x, y)

\* scored.sort(reverse=True)
RECURSIVE SortedDesc(_)
SortedDesc(S) ==
    IF S = {} THEN <<>>
    ELSE LET m == CHOOSE x \in S : \A y \in S \ {x} : ScoredLess(y, x)
         IN  <<m>> \o SortedDesc(S \ {m})

\* trim_to_target(words, target, min_len, max_len)
trim_to_target(ws, target, min_len, max_len) ==
    LET scored == SortedDesc({w \in ws : WordReMatch(w, min_len, max_len)})
    IN  SubSeq(scored, 1, IF target < Len(scored) THEN target ELSE Len(scored))

\* main, line 290: the surplus test
Surplus == opts.target_size # 0 /\ Cardinality(final_words) > opts.target_size

\* main, lines 290-296: the surplus is trimmed, the run reports and returns
TrimFinish ==
    /\ gpc = "after_loop"
    /\ UNCHANGED nonGenVars
    /\ Surplus
    /\ LET kept == trim_to_target(final_words, opts.target_size, opts.min_length,
                                  opts.max_length)
       IN  /\ out_file' = Sorted(Range(kept))
           /\ final_words' = Range(kept)
    /\ finished' = TRUE
    /\ exit_status' = 0
    /\ gpc' = "done"
    /\ UNCHANGED <<opts, freq_current, cycle, passes, li, seen, added, attempts,
                   wait, end_reason>>

\* main, lines 290 and 296: no surplus, the run reports and returns
Finish ==
    /\ gpc = "after_loop"
    /\ UNCHANGED nonGenVars
    /\ ~Surplus
    /\ finished' = TRUE
    /\ exit_status' = 0
    /\ gpc' = "done"
    /\ UNCHANGED <<opts, final_words, out_file, freq_current, cycle, passes, li,
                   seen, added, attempts, wait, end_reason>>

GenNext ==
    \/ CycleAbort
    \/ StartPass
    \/ SkipLetter
    \/ EnterLetter
    \/ QueryOk
    \/ QueryError
    \/ QueryRaise
    \/ PassReturn
    \/ TargetReached
    \/ Stall
    \/ Relax
    \/ NextCycle
    \/ TrimFinish
    \/ Finish

-----------------------------------------------------------------------------
(* wordlist_openai_improver.py                                             *)

\* the length refine_wordlist requires of its list: 65_536, scaled down
RequiredSize == 3

\* bound on the records of one payload
MaxRecs == 2

\* bound on the replacements of one record
MaxAlts == 2

\* BANNED, reduced to the one entry the model's words can hit
BANNED == {damn}

\* RE_NON_ALPHA.search(word): some character outside a-zA-Z
HasNonAlpha(w) == \E i \in 1..Len(w) : w[i] \notin LowerChars \cup UpperChars

\* f"_missing_{word}_"
MissingPrefix == <<"_", "m", "i", "s", "s", "i", "n", "g", "_">>

Placeholder(w) == MissingPrefix \o w \o <<"_">>

\* PLACEHOLDER_RE.match(w): ^_missing_[a-z]+_$
IsPlaceholder(w) ==
    /\ Len(w) >= Len(MissingPrefix) + 2
    /\ SubSeq(w, 1, Len(MissingPrefix)) = MissingPrefix
    /\ w[Len(w)] = "_"
    /\ \A i \in (Len(MissingPrefix) + 1)..(Len(w) - 1) : w[i] \in LowerChars

obvious_bad(word, freq_threshold) ==
    \/ word \in BANNED
    \/ HasNonAlpha(word)
    \/ IsUpper(word)
    \/ Zipf(word) < freq_threshold

\* list.remove(x): drop the first occurrence of x
RemoveFirst(s, x) ==
    LET k == CHOOSE i \in 1..Len(s) : s[i] = x /\ \A j \in 1..(i - 1) : s[j] # x
    IN  SubSeq(s, 1, k - 1) \o SubSeq(s, k + 1, Len(s))

\* mutant of Replaced: the word is removed and nothing is appended
RemovedOnly(ws, word, new) == RemoveFirst(ws, word)

\* words.remove(word); words.append(new)
Replaced(ws, word, new) == Append(RemoveFirst(ws, word), new)

\* the lines opts.input can hold
InputLines == {ab, ba, a_b, <<" ", "D", "a", "m", "n">>}

\* the input files of the model: the line lists of length RequiredSize - 1 to
\* RequiredSize + 1 whose lines come in the order of Sorted(InputLines)
InputFiles ==
    LET order == Sorted(InputLines)
        Pos(x) == CHOOSE i \in 1..Len(order) : order[i] = x
    IN  {f \in UNION {[1..n -> InputLines] :
                         n \in (RequiredSize - 1)..(RequiredSize + 1)} :
            \A i \in 1..(Len(f) - 1) : Pos(f[i]) <= Pos(f[i + 1])}

\* the command lines of the model
RefineOptions ==
    [ batch_size     : {2},
      freq_threshold : {4},
      max_retries    : {0, 2} ]

\* top_n_list("en", 50000): the reserve pool, most frequent first
CommonPool == <<ab, damn, bb, a_b, ba, bab, abb>>

\* the words a record of the model can name, and those it can suggest
RecWords == {ab, ba, a_b, damn, Placeholder(damn)}
AltWords == {ab, bb, abb, <<"D", "a", "m", "n">>}

\* BloomFilter(max_elements=131_072, error_rate=1e-4) answers "in" for every
\* word added and, with small probability, for a word never added: the
\* words of bloom_fp
BloomFalsePositives == {{}, {bb}}

InBloom(x, bl) == x \in bl \/ x \in bloom_fp

RefInit ==
    /\ ropts \in RefineOptions
    /\ input_file \in InputFiles
    /\ bloom_fp \in BloomFalsePositives
    /\ words = <<>>
    /\ wordset = {}
    /\ bloom = {}
    /\ placeholders = <<>>
    /\ candidates = <<>>
    /\ bi = 0
    /\ nrec = 0
    /\ rattempts = 0
    /\ rwait = 0
    /\ log = [open |-> FALSE, rows |-> <<>>]
    /\ output = <<>>
    /\ written = FALSE
    /\ malformed = 0
    /\ rend = "none"
    /\ rpc = "start"
    /\ rstatus = -1

\* refine_wordlist, line 144: the stripped, lower-cased, non-blank lines
ReadWords(f) ==
    LET keep == SelectSeq(f, LAMBDA l : Strip(l) # <<>>)
    IN  [i \in 1..Len(keep) |-> Lower(Strip(keep[i]))]

\* refine_wordlist, lines 155-162: the banned purge of one word list; st is
\* [words, wordset, bloom, placeholders], todo the banned words still to purge
RECURSIVE Purge(_, _)
Purge(st, todo) ==
    IF todo = {} THEN st
    ELSE LET bw == CHOOSE x \in todo : TRUE
             ph == Placeholder(bw)
         IN  Purge([words        |-> Replaced(st.words, bw, ph),
                    wordset      |-> (st.wordset \ {bw}) \cup {ph},
                    bloom        |-> st.bloom \cup {ph},
                    placeholders |-> Append(st.placeholders, ph)],
                   todo \ {bw})

\* refine_wordlist, line 164
Candidates(ws, freq_threshold) ==
    SelectSeq(ws, LAMBDA w : ~obvious_bad(w, freq_threshold) /\ ~IsPlaceholder(w))

\* refine_wordlist, lines 145-146: the input has the wrong length
LoadReject ==
    /\ rpc = "start"
    /\ Len(ReadWords(input_file)) # RequiredSize
    /\ rpc' = "done"
    /\ rstatus' = 1
    /\ rend' = "bad_input"
    /\ UNCHANGED <<ropts, bloom_fp, input_file, words, wordset, bloom, placeholders,
                   candidates, bi, nrec, rattempts, rwait, log, output, written,
                   malformed>>
    /\ UNCHANGED nonRefVars

\* refine_wordlist, lines 144-171: load, banned purge, candidates, log opened
Load ==
    /\ rpc = "start"
    /\ Len(ReadWords(input_file)) = RequiredSize
    /\ LET ws == ReadWords(input_file)
           st == Purge([words |-> ws, wordset |-> Range(ws), bloom |-> Range(ws),
                        placeholders |-> <<>>],
                       Range(ws) \cap BANNED)
       IN  /\ words' = st.words
           /\ wordset' = st.wordset
           /\ bloom' = st.bloom
           /\ placeholders' = st.placeholders
           /\ candidates' = Candidates(st.words, ropts.freq_threshold)
    /\ log' = [open |-> TRUE, rows |-> <<>>]
    /\ bi' = 1
    /\ rpc' = "call"
    /\ UNCHANGED <<rend, ropts, bloom_fp, input_file, nrec, rattempts, rwait, output, written,
                   malformed, rstatus>>
    /\ UNCHANGED nonRefVars

\* chunked(candidates, batch_size): the number of batches
NumBatches ==
    (Len(candidates) + ropts.batch_size - 1) \div ropts.batch_size

\* refine_wordlist, lines 175-191: an attempt raises OpenAIError and is retried
CallError ==
    /\ rpc = "call"
    /\ bi <= NumBatches
    /\ MayAttempt(rattempts, ropts.max_retries)
    /\ rattempts' = rattempts + 1
    /\ rwait' = Backoff(rattempts + 1)
    /\ UNCHANGED <<rend, ropts, bloom_fp, input_file, words, wordset, bloom, placeholders,
                   candidates, bi, nrec, log, output, written, malformed, rpc,
                   rstatus>>
    /\ UNCHANGED nonRefVars

\* refine_wordlist, lines 192-193: every attempt failed, sys.exit
CallAbort ==
    /\ rpc = "call"
    /\ bi <= NumBatches
    /\ ~MayAttempt(rattempts, ropts.max_retries)
    /\ rpc' = "done"
    /\ rstatus' = 1
    /\ rend' = "api_failure"
    /\ UNCHANGED <<ropts, bloom_fp, input_file, words, wordset, bloom, placeholders,
                   candidates, bi, nrec, rattempts, rwait, log, output, written,
                   malformed>>
    /\ UNCHANGED nonRefVars

\* refine_wordlist, lines 195-200: the response does not parse, the batch is
\* skipped
CallMalformed ==
    /\ rpc = "call"
    /\ bi <= NumBatches
    /\ MayAttempt(rattempts, ropts.max_retries)
    /\ malformed' = malformed + 1
    /\ bi' = bi + 1
    /\ rattempts' = 0
    /\ rwait' = 0
    /\ UNCHANGED <<rend, ropts, bloom_fp, input_file, words, wordset, bloom, placeholders,
                   candidates, nrec, log, output, written, rpc, rstatus>>
    /\ UNCHANGED nonRefVars

\* refine_wordlist, lines 177-196: the call answers with a payload
CallOk ==
    /\ rpc = "call"
    /\ bi <= NumBatches
    /\ MayAttempt(rattempts, ropts.max_retries)
    /\ rpc' = "recs"
    /\ nrec' = 0
    /\ rattempts' = 0
    /\ rwait' = 0
    /\ UNCHANGED <<rend, ropts, bloom_fp, input_file, words, wordset, bloom, placeholders,
                   candidates, bi, log, output, written, malformed, rstatus>>
    /\ UNCHANGED nonRefVars

\* refine_wordlist, lines 203-208: a record that names no word of the list, or
\* says keep
RecKeep ==
    /\ rpc = "recs"
    /\ nrec < MaxRecs
    /\ \E word \in RecWords, keep \in BOOLEAN :
          Lower(word) \notin wordset \/ keep
    /\ nrec' = nrec + 1
    /\ UNCHANGED <<rend, ropts, bloom_fp, input_file, words, wordset, bloom, placeholders,
                   candidates, bi, rattempts, rwait, log, output, written,
                   malformed, rpc, rstatus>>
    /\ UNCHANGED nonRefVars

\* mutant of AltUsable: the seen-filter is not consulted
AltUsableUnseen(alt) ==
    /\ alt # <<>>
    /\ IsAlpha(alt)
    /\ ~obvious_bad(alt, ropts.freq_threshold)

\* refine_wordlist, line 218: the test a suggested replacement has to pass
AltUsable(alt) ==
    /\ alt # <<>>
    /\ IsAlpha(alt)
    /\ ~InBloom(alt, bloom)
    /\ ~obvious_bad(alt, ropts.freq_threshold)

\* refine_wordlist, lines 217-224: the index of the first usable replacement
\* of a record, 0 if there is none
FirstUsable(alts) ==
    IF \E i \in 1..Len(alts) : AltUsable(alts[i])
    THEN CHOOSE i \in 1..Len(alts) :
            AltUsable(alts[i]) /\ \A j \in 1..(i - 1) : ~AltUsable(alts[j])
    ELSE 0

\* refine_wordlist, lines 210-234: the model rejects a word of the list
RecReject ==
    /\ rpc = "recs"
    /\ nrec < MaxRecs
    /\ \E rw \in RecWords, replacements \in SeqsUpTo(AltWords, MaxAlts) :
          LET word == Lower(rw)
              alts == [i \in 1..Len(replacements) |-> Lower(replacements[i])]
              k    == FirstUsable(alts)
              new  == IF k # 0 THEN alts[k] ELSE Placeholder(word)
          IN  /\ word \in wordset
              /\ words' = Replaced(words, word, new)
              /\ wordset' = (wordset \ {word}) \cup {new}
              /\ bloom' = bloom \cup {new}
              /\ placeholders' =
                    IF k # 0 THEN placeholders ELSE Append(placeholders, new)
              /\ log' = [log EXCEPT !.rows =
                    Append(@, IF k # 0 THEN <<word, new, "reason">>
                              ELSE <<word, new, "reason (placeholder)">>)]
    /\ nrec' = nrec + 1
    /\ UNCHANGED <<rend, ropts, bloom_fp, input_file, candidates, bi, rattempts, rwait, output,
                   written, malformed, rpc, rstatus>>
    /\ UNCHANGED nonRefVars

\* refine_wordlist, lines 202 and 173: the payload is used up, next batch
EndRecs ==
    /\ rpc = "recs"
    /\ bi' = bi + 1
    /\ rpc' = "call"
    /\ UNCHANGED <<rend, ropts, bloom_fp, input_file, words, wordset, bloom, placeholders,
                   candidates, nrec, rattempts, rwait, log, output, written,
                   malformed, rstatus>>
    /\ UNCHANGED nonRefVars

\* mutant of PoolUsable: the pool word is not screened by obvious_bad
PoolUsableUnscreened(candidate, bl) == ~InBloom(candidate, bl)

\* refine_wordlist, line 249: the test a pool word has to pass
PoolUsable(candidate, bl) ==
    /\ ~InBloom(candidate, bl)
    /\ ~obvious_bad(candidate, ropts.freq_threshold)

\* refine_wordlist, lines 243-253: the placeholder fill from index idx on, with
\* pool_iter standing before pool[pos]; the iterator is shared by all
\* placeholders and never rewinds
RECURSIVE FillFrom(_, _, _, _, _, _)
FillFrom(ws, idx, pool, pos, bl, made) ==
    IF idx > Len(ws) THEN [words |-> ws, bloom |-> bl, made |-> made]
    ELSE IF ~IsPlaceholder(ws[idx]) THEN FillFrom(ws, idx + 1, pool, pos, bl, made)
    ELSE IF \E k \in pos..Len(pool) : PoolUsable(pool[k], bl)
    THEN LET k == CHOOSE i \in pos..Len(pool) :
                     /\ PoolUsable(pool[i], bl)
                     /\ \A j \in pos..(i - 1) : ~PoolUsable(pool[j], bl)
         IN  FillFrom([ws EXCEPT ![idx] = pool[k]], idx + 1, pool, k + 1,
                      bl \cup {pool[k]}, made + 1)
    ELSE FillFrom(ws, idx + 1, pool, Len(pool) + 1, bl, made)

\* refine_wordlist, lines 241-254
FillPlaceholders(ws, bl) ==
    IF placeholders # <<>>
    THEN FillFrom(ws, 1, SelectSeq(CommonPool, IsAlpha), 1, bl, 0)
    ELSE [words |-> ws, bloom |-> bl, made |-> 0]

\* refine_wordlist, lines 236-260: the batches are done; fill, length check,
\* output written
FillAndWrite ==
    /\ rpc = "call"
    /\ bi > NumBatches
    /\ LET r == FillPlaceholders(words, bloom)
       IN  /\ words' = r.words
           /\ bloom' = r.bloom
           /\ IF Len(r.words) # RequiredSize
              THEN /\ rstatus' = 1
                   /\ rend' = "drifted"
                   /\ UNCHANGED <<output, written>>
              ELSE /\ rstatus' = 0
                   /\ rend' = "ok"
                   /\ written' = TRUE
                   \* sorted(words) keeps duplicates: insert in order
                   /\ output' = SortSeq(r.words, LAMBDA x, y : StrLess(x, y))
    /\ rpc' = "done"
    /\ UNCHANGED <<ropts, bloom_fp, input_file, wordset, placeholders, candidates, bi, nrec,
                   rattempts, rwait, log, malformed>>
    /\ UNCHANGED nonRefVars

RefNext ==
    \/ LoadReject
    \/ Load
    \/ CallError
    \/ CallAbort
    \/ CallMalformed
    \/ CallOk
    \/ RecKeep
    \/ RecReject
    \/ EndRecs
    \/ FillAndWrite

-----------------------------------------------------------------------------
(* data/words_research/verify_dictionary_quality.py                        *)

\* the word count check_word_count expects: 65536, scaled down
ExpectedCount == 3

to  == <<"t", "o">>
too == <<"t", "o", "o">>
two == <<"t", "w", "o">>
big == <<"b", "i", "g">>
bad == <<"b", "a", "d">>
ass == <<"a", "s", "s">>
understanding == <<"u", "n", "d", "e", "r", "s", "t", "a", "n", "d", "i", "n", "g">>

\* KNOWN_HOMOPHONES and PROBLEMATIC_PAIRS, reduced to the entries the model's
\* words can hit
KNOWN_HOMOPHONES == {<<to, too, two>>}
PROBLEMATIC_PAIRS == {<<big, ass>>, <<bad, ass>>}

\* the lines a dictionary file can hold
VerifyLines ==
    {<<" ">>, <<"a">>, Ab, a_b, bad, <<"b", "é">>, to, <<"t", "o", "o", " ">>,
     understanding, Placeholder(ab)}

\* the dictionary files of the model: the line lists of length
\* ExpectedCount - 1 to ExpectedCount + 1 whose lines come in the order of
\* Sorted(VerifyLines)
VerifyFiles ==
    LET order == Sorted(VerifyLines)
        Pos(x) == CHOOSE i \in 1..Len(order) : order[i] = x
    IN  {f \in UNION {[1..n -> VerifyLines] :
                         n \in (ExpectedCount - 1)..(ExpectedCount + 1)} :
            \A i \in 1..(Len(f) - 1) : Pos(f[i]) <= Pos(f[i + 1])}

VerInit ==
    /\ dictionary_file \in
          {[exists |-> FALSE, lines |-> <<>>]} \cup
          {[exists |-> TRUE, lines |-> f] : f \in VerifyFiles}
    /\ self_words = <<>>
    /\ word_set = {}
    /\ all_good = TRUE
    /\ found_homophones = {}
    /\ problematic_words = {}
    /\ verdict = "none"
    /\ vpc = "main"
    /\ vstatus = -1

\* main, lines 309-315: there is no dictionary file
VNoFile ==
    /\ vpc = "main"
    /\ ~dictionary_file.exists
    /\ vstatus' = 1
    /\ vpc' = "done"
    /\ UNCHANGED <<dictionary_file, self_words, word_set, all_good,
                   found_homophones, problematic_words, verdict>>
    /\ UNCHANGED nonVerVars

\* DictionaryQualityChecker.__init__, lines 68-70: the stripped non-blank lines
LoadDictionary(lines) ==
    LET keep == SelectSeq(lines, LAMBDA l : Strip(l) # <<>>)
    IN  [i \in 1..Len(keep) |-> Strip(keep[i])]

\* main, line 319, __init__ and run_all_checks, lines 254-257
VLoad ==
    /\ vpc = "main"
    /\ dictionary_file.exists
    /\ self_words' = LoadDictionary(dictionary_file.lines)
    /\ word_set' = Range(LoadDictionary(dictionary_file.lines))
    /\ all_good' = TRUE
    /\ vpc' = "count"
    /\ UNCHANGED <<dictionary_file, found_homophones, problematic_words, verdict,
                   vstatus>>
    /\ UNCHANGED nonVerVars

\* check_word_count
check_word_count(ws) == Len(ws) = ExpectedCount

\* check_duplicates
check_duplicates(ws, wset) == Len(ws) = Cardinality(wset)

\* check_word_lengths: the keys of the length distribution it returns
LengthKeys(ws) == {Len(ws[i]) : i \in 1..Len(ws)}

\* mutant of check_character_validity: the check always passes
check_character_validity_off(ws) == TRUE

\* check_character_validity
check_character_validity(ws) == \A i \in 1..Len(ws) : IsAlpha(ws[i])

\* check_homophones: the groups with more than one member present
check_homophones(wset) ==
    {SelectSeq(group, LAMBDA w : w \in wset) : group \in
        {g \in KNOWN_HOMOPHONES : Len(SelectSeq(g, LAMBDA w : w \in wset)) > 1}}

\* check_problematic_combinations: the words of the pairs that are present
ProblematicWords(wset) ==
    {w \in wset : \E pair \in PROBLEMATIC_PAIRS : w = pair[1] \/ w = pair[2]}

\* run_all_checks, line 260
CheckWordCount ==
    /\ vpc = "count"
    /\ all_good' = (all_good /\ check_word_count(self_words))
    /\ vpc' = "dups"
    /\ UNCHANGED <<dictionary_file, self_words, word_set, found_homophones,
                   problematic_words, verdict, vstatus>>
    /\ UNCHANGED nonVerVars

\* run_all_checks, line 261
CheckDuplicates ==
    /\ vpc = "dups"
    /\ all_good' = (all_good /\ check_duplicates(self_words, word_set))
    /\ vpc' = "lengths"
    /\ UNCHANGED <<dictionary_file, self_words, word_set, found_homophones,
                   problematic_words, verdict, vstatus>>
    /\ UNCHANGED nonVerVars

\* run_all_checks, lines 264-265
CheckWordLengths ==
    /\ vpc = "lengths"
    /\ all_good' = (all_good /\ \A length \in LengthKeys(self_words) : length >= 2)
    /\ vpc' = "chars"
    /\ UNCHANGED <<dictionary_file, self_words, word_set, found_homophones,
                   problematic_words, verdict, vstatus>>
    /\ UNCHANGED nonVerVars

\* run_all_checks, line 267
CheckCharacterValidity ==
    /\ vpc = "chars"
    /\ all_good' = (all_good /\ check_character_validity(self_words))
    /\ vpc' = "homophones"
    /\ UNCHANGED <<dictionary_file, self_words, word_set, found_homophones,
                   problematic_words, verdict, vstatus>>
    /\ UNCHANGED nonVerVars

\* run_all_checks, line 270: the result of check_homophones is dropped
CheckHomophones ==
    /\ vpc = "homophones"
    /\ found_homophones' = check_homophones(word_set)
    /\ vpc' = "problematic"
    /\ UNCHANGED <<dictionary_file, self_words, word_set, all_good,
                   problematic_words, verdict, vstatus>>
    /\ UNCHANGED nonVerVars

\* run_all_checks, line 271: the result is dropped
CheckProblematic ==
    /\ vpc = "problematic"
    /\ problematic_words' = ProblematicWords(word_set)
    /\ vpc' = "summary"
    /\ UNCHANGED <<dictionary_file, self_words, word_set, all_good,
                   found_homophones, verdict, vstatus>>
    /\ UNCHANGED nonVerVars

\* run_all_checks, lines 273-286: analysis, summary, report saved, return
VReturn ==
    /\ vpc = "summary"
    /\ verdict' = IF all_good THEN "pass" ELSE "fail"
    /\ vpc' = "exit"
    /\ UNCHANGED <<dictionary_file, self_words, word_set, all_good,
                   found_homophones, problematic_words, vstatus>>
    /\ UNCHANGED nonVerVars

\* main, line 322: sys.exit(0 if success else 1)
VExit ==
    /\ vpc = "exit"
    /\ vstatus' = IF verdict = "pass" THEN 0 ELSE 1
    /\ vpc' = "done"
    /\ UNCHANGED <<dictionary_file, self_words, word_set, all_good,
                   found_homophones, problematic_words, verdict>>
    /\ UNCHANGED nonVerVars

VerNext ==
    \/ VNoFile
    \/ VLoad
    \/ CheckWordCount
    \/ CheckDuplicates
    \/ CheckWordLengths
    \/ CheckCharacterValidity
    \/ CheckHomophones
    \/ CheckProblematic
    \/ VReturn
    \/ VExit

-----------------------------------------------------------------------------
(* generate_all_forms of create_all_readable_dictionary.py,                *)
(* create_best_readable_dictionary.py and create_truly_readable_dictionary.py *)

\* str.endswith(suffix)
EndsWith(s, suf) ==
    /\ Len(s) >= Len(suf)
    /\ SubSeq(s, Len(s) - Len(suf) + 1, Len(s)) = suf

\* str.endswith(tuple of suffixes)
EndsWithAny(s, sufs) == \E suf \in sufs : EndsWith(s, suf)

\* s[:-n]
DropLast(s, n) == SubSeq(s, 1, Len(s) - n)

\* s[-k]
At(s, k) == s[Len(s) - k + 1]

\* s[-2:]
LastTwo(s) == IF Len(s) >= 2 THEN SubSeq(s, Len(s) - 1, Len(s)) ELSE s

\* 'aeiou'
Vowels == {"a", "e", "i", "o", "u"}

\* 'bcdgklmnprstvwz' (create_all) and 'bcdgklmnprstvz' (create_best,
\* create_truly): the final consonants that are doubled
DoubledAll   == {"b", "c", "d", "g", "k", "l", "m", "n", "p", "r", "s", "t", "v", "w", "z"}
DoubledOther == {"b", "c", "d", "g", "k", "l", "m", "n", "p", "r", "s", "t", "v", "z"}

\* base_word.endswith('y') and len(base_word) > 2 and base_word[-2] not in 'aeiou'
ConsonantY(b) == EndsWith(b, <<"y">>) /\ Len(b) > 2 /\ At(b, 2) \notin Vowels

\* len(base_word) >= 3 and base_word[-1] in <doubled> and base_word[-2] in
\* 'aeiou' and base_word[-3] not in 'aeiou'
Doubles(b, doubled) ==
    /\ Len(b) >= 3
    /\ At(b, 1) \in doubled
    /\ At(b, 2) \in Vowels
    /\ At(b, 3) \notin Vowels

\* the entry of a table of irregular forms under a key, {} if there is none
TableKeys(tab) == {e[1] : e \in tab}
TableForms(tab, key) == UNION {e[2] : e \in {x \in tab : x[1] = key}}

\* the base words generate_all_forms is called with
BaseWords ==
    { <<"b", "e">>, <<"u", "n", "d", "e", "r", "s", "t", "a", "n", "d">>,
      <<"m", "a", "n">>, <<"c", "u", "t">>,
      <<"r", "u", "n">>, <<"t", "r", "y">>,
      <<"h", "a", "p", "p", "y">>, <<"m", "a", "k", "e">>,
      <<"g", "o">>, <<"b", "o", "x">>,
      <<"d", "i", "e">>, <<"s", "e", "e">>,
      <<"s", "t", "o", "p">>, <<"a">>,
      <<"s", "i", "m", "p", "l", "e">>, <<"b", "a", "s", "i", "c">>,
      <<"k", "i", "n", "d", "n", "e", "s", "s">>, <<"o", "p", "e", "n">>,
      <<"p", "a", "s", "s">>, <<"e", "c", "h", "o">>,
      <<"b", "o", "y">>, <<"r", "e", "s", "p", "o", "n", "s", "i", "b", "i", "l", "i", "t", "y">> }

\* create_all: special_cases, reduced to the keys among BaseWords
special_cases ==
    { <<<<"b", "e">>,
        {<<"a", "m">>,
         <<"i", "s">>,
         <<"a", "r", "e">>,
         <<"w", "a", "s">>,
         <<"w", "e", "r", "e">>,
         <<"b", "e", "e", "n">>,
         <<"b", "e", "i", "n", "g">>}>>,
      <<<<"g", "o">>,
        {<<"g", "o", "e", "s">>,
         <<"w", "e", "n", "t">>,
         <<"g", "o", "n", "e">>,
         <<"g", "o", "i", "n", "g">>}>>,
      <<<<"m", "a", "k", "e">>,
        {<<"m", "a", "k", "e", "s">>,
         <<"m", "a", "d", "e">>,
         <<"m", "a", "k", "i", "n", "g">>}>>,
      <<<<"s", "e", "e">>,
        {<<"s", "e", "e", "s">>,
         <<"s", "a", "w">>,
         <<"s", "e", "e", "n">>,
         <<"s", "e", "e", "i", "n", "g">>}>>,
      <<<<"r", "u", "n">>,
        {<<"r", "u", "n", "s">>,
         <<"r", "a", "n">>,
         <<"r", "u", "n", "n", "i", "n", "g">>}>>,
      <<<<"u", "n", "d", "e", "r", "s", "t", "a", "n", "d">>,
        {<<"u", "n", "d", "e", "r", "s", "t", "a", "n", "d", "s">>,
         <<"u", "n", "d", "e", "r", "s", "t", "o", "o", "d">>,
         <<"u", "n", "d", "e", "r", "s", "t", "a", "n", "d", "i", "n", "g">>}>>,
      <<<<"c", "u", "t">>,
        {<<"c", "u", "t", "s">>,
         <<"c", "u", "t", "t", "i", "n", "g">>}>>,
      <<<<"m", "a", "n">>,
        {<<"m", "e", "n">>}>> }

\* create_best: irregular_verbs, reduced to the keys among BaseWords
irregular_verbs ==
    { <<<<"b", "e">>,
        {<<"a", "m">>,
         <<"i", "s">>,
         <<"a", "r", "e">>,
         <<"w", "a", "s">>,
         <<"w", "e", "r", "e">>,
         <<"b", "e", "e", "n">>,
         <<"b", "e", "i", "n", "g">>}>>,
      <<<<"g", "o">>,
        {<<"g", "o", "e", "s">>,
         <<"w", "e", "n", "t">>,
         <<"g", "o", "n", "e">>,
         <<"g", "o", "i", "n", "g">>}>>,
      <<<<"m", "a", "k", "e">>,
        {<<"m", "a", "k", "e", "s">>,
         <<"m", "a", "d", "e">>,
         <<"m", "a", "k", "i", "n", "g">>,
         <<"m", "a", "k", "e", "r">>,
         <<"m", "a", "k", "e", "r", "s">>}>>,
      <<<<"s", "e", "e">>,
        {<<"s", "e", "e", "s">>,
         <<"s", "a", "w">>,
         <<"s", "e", "e", "n">>,
         <<"s", "e", "e", "i", "n", "g">>,
         <<"s", "e", "e", "r">>,
         <<"s", "e", "e", "r", "s">>}>>,
      <<<<"r", "u", "n">>,
        {<<"r", "u", "n", "s">>,
         <<"r", "a", "n">>,
         <<"r", "u", "n", "n", "i", "n", "g">>,
         <<"r", "u", "n", "n", "e", "r">>,
         <<"r", "u", "n", "n", "e", "r", "s">>}>>,
      <<<<"u", "n", "d", "e", "r", "s", "t", "a", "n", "d">>,
        {<<"u", "n", "d", "e", "r", "s", "t", "a", "n", "d", "s">>,
         <<"u", "n", "d", "e", "r", "s", "t", "o", "o", "d">>,
         <<"u", "n", "d", "e", "r", "s", "t", "a", "n", "d", "i", "n", "g">>}>>,
      <<<<"c", "u", "t">>,
        {<<"c", "u", "t", "s">>,
         <<"c", "u", "t", "t", "i", "n", "g">>,
         <<"c", "u", "t", "t", "e", "r">>,
         <<"c", "u", "t", "t", "e", "r", "s">>}>> }

\* create_best: irregular_plurals, reduced to the keys among BaseWords
irregular_plurals ==
    { <<<<"m", "a", "n">>,
        {<<"m", "e", "n">>}>> }

\* create_truly: irregular, reduced to the keys among BaseWords
irregular ==
    { <<<<"b", "e">>,
        {<<"a", "m">>,
         <<"i", "s">>,
         <<"a", "r", "e">>,
         <<"w", "a", "s">>,
         <<"w", "e", "r", "e">>,
         <<"b", "e", "e", "n">>,
         <<"b", "e", "i", "n", "g">>}>>,
      <<<<"g", "o">>,
        {<<"g", "o", "e", "s">>,
         <<"w", "e", "n", "t">>,
         <<"g", "o", "n", "e">>,
         <<"g", "o", "i", "n", "g">>}>>,
      <<<<"m", "a", "k", "e">>,
        {<<"m", "a", "k", "e", "s">>,
         <<"m", "a", "d", "e">>,
         <<"m", "a", "k", "i", "n", "g">>,
         <<"m", "a", "k", "e", "r">>}>>,
      <<<<"s", "e", "e">>,
        {<<"s", "e", "e", "s">>,
         <<"s", "a", "w">>,
         <<"s", "e", "e", "n">>,
         <<"s", "e", "e", "i", "n", "g">>}>>,
      <<<<"t", "r", "y">>,
        {<<"t", "r", "i", "e", "s">>,
         <<"t", "r", "i", "e", "d">>,
         <<"t", "r", "y", "i", "n", "g">>}>>,
      <<<<"r", "u", "n">>,
        {<<"r", "u", "n", "s">>,
         <<"r", "a", "n">>,
         <<"r", "u", "n", "n", "i", "n", "g">>,
         <<"r", "u", "n", "n", "e", "r">>}>>,
      <<<<"s", "t", "o", "p">>,
        {<<"s", "t", "o", "p", "s">>,
         <<"s", "t", "o", "p", "p", "e", "d">>,
         <<"s", "t", "o", "p", "p", "i", "n", "g">>,
         <<"s", "t", "o", "p", "p", "e", "r">>}>>,
      <<<<"o", "p", "e", "n">>,
        {<<"o", "p", "e", "n", "s">>,
         <<"o", "p", "e", "n", "e", "d">>,
         <<"o", "p", "e", "n", "i", "n", "g">>,
         <<"o", "p", "e", "n", "e", "r">>}>>,
      <<<<"d", "i", "e">>,
        {<<"d", "i", "e", "s">>,
         <<"d", "i", "e", "d">>,
         <<"d", "y", "i", "n", "g">>}>>,
      <<<<"c", "u", "t">>,
        {<<"c", "u", "t", "s">>,
         <<"c", "u", "t", "t", "i", "n", "g">>,
         <<"c", "u", "t", "t", "e", "r">>}>> }

\* create_all_readable_dictionary.generate_all_forms
generate_all_forms_all(base_word) ==
    LET b == base_word
        s_form ==
            IF ~EndsWith(b, <<"s">>)
            THEN IF ConsonantY(b) THEN {DropLast(b, 1) \o <<"i", "e", "s">>}
                 ELSE IF EndsWithAny(b, {<<"s">>, <<"s", "s">>, <<"s", "h">>,
                                         <<"c", "h">>, <<"x">>, <<"z">>})
                 THEN {b \o <<"e", "s">>}
                 ELSE IF EndsWith(b, <<"o">>) /\ LastTwo(b) \notin {<<"o", "o">>, <<"e", "o">>}
                 THEN {b \o <<"e", "s">>}
                 ELSE {b \o <<"s">>}
            ELSE {}
        ing_form ==
            IF EndsWith(b, <<"i", "e">>) THEN DropLast(b, 2) \o <<"y", "i", "n", "g">>
            ELSE IF EndsWith(b, <<"e">>) /\ ~EndsWith(b, <<"e", "e">>)
            THEN DropLast(b, 1) \o <<"i", "n", "g">>
            ELSE IF Doubles(b, DoubledAll) THEN b \o <<At(b, 1)>> \o <<"i", "n", "g">>
            ELSE b \o <<"i", "n", "g">>
        ed_form ==
            IF EndsWith(b, <<"e">>) THEN b \o <<"d">>
            ELSE IF ConsonantY(b) THEN DropLast(b, 1) \o <<"i", "e", "d">>
            ELSE IF Doubles(b, DoubledAll) THEN b \o <<At(b, 1)>> \o <<"e", "d">>
            ELSE b \o <<"e", "d">>
        er_form ==
            IF EndsWith(b, <<"e">>) THEN b \o <<"r">>
            ELSE IF ConsonantY(b) THEN DropLast(b, 1) \o <<"i", "e", "r">>
            ELSE IF Doubles(b, DoubledAll) THEN b \o <<At(b, 1)>> \o <<"e", "r">>
            ELSE b \o <<"e", "r">>
        est_form ==
            IF EndsWith(b, <<"e">>) THEN b \o <<"s", "t">>
            ELSE IF ConsonantY(b) THEN DropLast(b, 1) \o <<"i", "e", "s", "t">>
            ELSE IF Doubles(b, DoubledAll) THEN b \o <<At(b, 1)>> \o <<"e", "s", "t">>
            ELSE b \o <<"e", "s", "t">>
        ly_form ==
            IF EndsWith(b, <<"y">>) THEN DropLast(b, 1) \o <<"i", "l", "y">>
            ELSE IF EndsWith(b, <<"l", "e">>) THEN DropLast(b, 1) \o <<"y">>
            ELSE b \o <<"l", "y">>
        ness_form ==
            IF ConsonantY(b) THEN DropLast(b, 1) \o <<"i", "n", "e", "s", "s">>
            ELSE b \o <<"n", "e", "s", "s">>
        all_forms == {b} \cup s_form \cup
                 {ing_form, ed_form, er_form, est_form, ly_form, ness_form,
                  b \o <<"f", "u", "l">>, b \o <<"l", "e", "s", "s">>}
    IN  IF b \in TableKeys(special_cases)
        THEN {b} \cup TableForms(special_cases, b)
        ELSE {form \in all_forms : 2 <= Len(form) /\ Len(form) <= 12 /\ IsAlpha(form)}

\* create_best_readable_dictionary.generate_all_forms
generate_all_forms_best(base_word) ==
    LET b == base_word
        plural ==
            IF b \in TableKeys(irregular_plurals)
            THEN TableForms(irregular_plurals, b) ELSE {}
        s_form ==
            IF ~EndsWithAny(b, {<<"s">>, <<"x">>, <<"z">>, <<"c", "h">>, <<"s", "h">>})
            THEN IF ConsonantY(b) THEN {DropLast(b, 1) \o <<"i", "e", "s">>}
                 ELSE IF EndsWith(b, <<"o">>) THEN {b \o <<"e", "s">>}
                 ELSE {b \o <<"s">>}
            ELSE {}
        ing_form ==
            IF EndsWith(b, <<"i", "e">>) THEN DropLast(b, 2) \o <<"y", "i", "n", "g">>
            ELSE IF EndsWith(b, <<"e">>) /\
                    ~EndsWithAny(b, {<<"e", "e">>, <<"o", "e">>, <<"y", "e">>})
            THEN DropLast(b, 1) \o <<"i", "n", "g">>
            ELSE IF Doubles(b, DoubledOther) THEN b \o <<At(b, 1)>> \o <<"i", "n", "g">>
            ELSE b \o <<"i", "n", "g">>
        ed_form ==
            IF ~EndsWithAny(b, {<<"e", "d">>, <<"e", "n">>, <<"w", "n">>, <<"n", "e">>})
            THEN IF EndsWith(b, <<"e">>) THEN {b \o <<"d">>}
                 ELSE IF ConsonantY(b) THEN {DropLast(b, 1) \o <<"i", "e", "d">>}
                 ELSE IF Doubles(b, DoubledOther) THEN {b \o <<At(b, 1)>> \o <<"e", "d">>}
                 ELSE {b \o <<"e", "d">>}
            ELSE {}
        er_forms ==
            IF EndsWith(b, <<"e">>) THEN {b \o <<"r">>, b \o <<"r", "s">>}
            ELSE IF ConsonantY(b)
            THEN {DropLast(b, 1) \o <<"i", "e", "r">>, DropLast(b, 1) \o <<"i", "e", "r", "s">>}
            ELSE IF Doubles(b, DoubledOther)
            THEN {b \o <<At(b, 1)>> \o <<"e", "r">>, b \o <<At(b, 1)>> \o <<"e", "r", "s">>}
            ELSE {b \o <<"e", "r">>, b \o <<"e", "r", "s">>}
        est_form ==
            IF EndsWith(b, <<"e">>) THEN b \o <<"s", "t">>
            ELSE IF ConsonantY(b) THEN DropLast(b, 1) \o <<"i", "e", "s", "t">>
            ELSE IF Doubles(b, DoubledOther) THEN b \o <<At(b, 1)>> \o <<"e", "s", "t">>
            ELSE b \o <<"e", "s", "t">>
        ly_form ==
            IF EndsWith(b, <<"y">>) THEN DropLast(b, 1) \o <<"i", "l", "y">>
            ELSE IF EndsWith(b, <<"l", "e">>) THEN DropLast(b, 1) \o <<"y">>
            ELSE IF EndsWith(b, <<"i", "c">>) THEN b \o <<"a", "l", "l", "y">>
            ELSE b \o <<"l", "y">>
        noun_forms ==
            IF ~EndsWithAny(b, {<<"n", "e", "s", "s">>, <<"m", "e", "n", "t">>, <<"t", "i", "o", "n">>, <<"s", "i", "o", "n">>, <<"i", "t", "y">>, <<"a", "n", "c", "e">>, <<"e", "n", "c", "e">>})
            THEN {IF ConsonantY(b) THEN DropLast(b, 1) \o <<"i", "n", "e", "s", "s">> ELSE b \o <<"n", "e", "s", "s">>}
                 \cup (IF ~EndsWith(b, <<"e">>)
                       THEN {b \o <<"m", "e", "n", "t">>, b \o <<"m", "e", "n", "t", "s">>} ELSE {})
            ELSE {}
        able_form ==
            IF EndsWith(b, <<"e">>) THEN DropLast(b, 1) \o <<"a", "b", "l", "e">> ELSE b \o <<"a", "b", "l", "e">>
        all_forms == {b} \cup plural \cup s_form \cup ed_form \cup er_forms \cup
                 noun_forms \cup
                 {ing_form, est_form, ly_form, b \o <<"f", "u", "l">>, b \o <<"l", "e", "s", "s">>,
                  able_form, b \o <<"i", "s", "h">>}
    IN  IF b \in TableKeys(irregular_verbs)
        THEN {b} \cup TableForms(irregular_verbs, b)
        ELSE {form \in all_forms : /\ 2 <= Len(form)
                               /\ Len(form) <= 12
                               /\ IsAlpha(form)
                               /\ Lower(form) = form}

\* create_truly_readable_dictionary.generate_all_forms
generate_all_forms_truly(base_word) ==
    LET b == base_word
        s_form ==
            IF ConsonantY(b) THEN DropLast(b, 1) \o <<"i", "e", "s">>
            ELSE IF EndsWithAny(b, {<<"s">>, <<"s", "s">>, <<"s", "h">>,
                                    <<"c", "h">>, <<"x">>, <<"z">>})
            THEN b \o <<"e", "s">>
            ELSE b \o <<"s">>
        ing_form ==
            IF EndsWith(b, <<"e">>) /\ ~EndsWith(b, <<"e", "e">>)
            THEN DropLast(b, 1) \o <<"i", "n", "g">>
            ELSE IF Doubles(b, DoubledOther) THEN b \o <<At(b, 1)>> \o <<"i", "n", "g">>
            ELSE b \o <<"i", "n", "g">>
        ed_form ==
            IF EndsWith(b, <<"e">>) THEN b \o <<"d">>
            ELSE IF ConsonantY(b) THEN DropLast(b, 1) \o <<"i", "e", "d">>
            ELSE IF Doubles(b, DoubledOther) THEN b \o <<At(b, 1)>> \o <<"e", "d">>
            ELSE b \o <<"e", "d">>
        er_form ==
            IF EndsWith(b, <<"e">>) THEN b \o <<"r">>
            ELSE IF ConsonantY(b) THEN DropLast(b, 1) \o <<"i", "e", "r">>
            ELSE b \o <<"e", "r">>
        ly_form ==
            IF EndsWith(b, <<"y">>) THEN DropLast(b, 1) \o <<"i", "l", "y">>
            ELSE b \o <<"l", "y">>
        all_forms ==
            IF b \in TableKeys(irregular)
            THEN {b} \cup TableForms(irregular, b)
            ELSE {b, s_form, ing_form, ed_form, er_form, ly_form}
    IN  {f \in all_forms : 2 <= Len(f) /\ Len(f) <= 12}

FormsInit ==
    /\ variant \in {"all", "best", "truly"}
    /\ base \in BaseWords
    /\ forms = {}
    /\ fpc = "call"

\* create_all_readable_dictionary.main, line 294: forms = generate_all_forms(base)
CallFormsAll ==
    /\ fpc = "call"
    /\ variant = "all"
    /\ forms' = generate_all_forms_all(base)
    /\ fpc' = "returned"
    /\ UNCHANGED <<variant, base>>
    /\ UNCHANGED nonFormVars

\* create_best_readable_dictionary.main, line 253
CallFormsBest ==
    /\ fpc = "call"
    /\ variant = "best"
    /\ forms' = generate_all_forms_best(base)
    /\ fpc' = "returned"
    /\ UNCHANGED <<variant, base>>
    /\ UNCHANGED nonFormVars

\* create_truly_readable_dictionary.main, line 231
CallFormsTruly ==
    /\ fpc = "call"
    /\ variant = "truly"
    /\ forms' = generate_all_forms_truly(base)
    /\ fpc' = "returned"
    /\ UNCHANGED <<variant, base>>
    /\ UNCHANGED nonFormVars

FormsNext ==
    \/ CallFormsAll
    \/ CallFormsBest
    \/ CallFormsTruly

-----------------------------------------------------------------------------
(* main of create_best_readable_dictionary.py and of                       *)
(* create_truly_readable_dictionary.py                                     *)

\* the size of the dictionary both scripts write: 65536, scaled down; as in
\* the scripts it exceeds what the word material can supply, so the padding
\* loops always run
DictSize == 100

\* the slice top_words[:1000] of create_best, scaled down
TopLimit == 2

\* bound on the rows of data/word_readability_scores.csv that score > 0.7
MaxCsvWords == 3

\* the words such rows can hold
CsvWords == {<<"b", "e">>, <<"m", "a", "n">>, <<"t", "r", "y">>, <<"D", "i", "e">>}

\* '0123456789'
DigitSeq == <<"0", "1", "2", "3", "4", "5", "6", "7", "8", "9">>

\* str(n) for n >= 0
RECURSIVE Digits(_)
Digits(n) ==
    IF n < 10 THEN <<DigitSeq[n + 1]>>
    ELSE Digits(n \div 10) \o <<DigitSeq[(n % 10) + 1]>>

\* f"{n:0<width>d}"
ZeroPad(n, width) ==
    LET d == Digits(n)
    IN  IF Len(d) >= width THEN d ELSE [i \in 1..(width - Len(d)) |-> "0"] \o d

\* [a + b for a in xs for b in ys], in loop order
Pairs(xs, ys) ==
    [k \in 1..(Len(xs) * Len(ys)) |->
        xs[((k - 1) \div Len(ys)) + 1] \o ys[((k - 1) % Len(ys)) + 1]]

\* list.append in a loop guarded by len(word_list) < 65536 and
\* word not in all_words
RECURSIVE AppendNew(_, _, _)
AppendNew(list, cands, aw) ==
    IF cands = <<>> THEN list
    ELSE AppendNew(IF Len(list) < DictSize /\ Head(cands) \notin aw
                   THEN Append(list, Head(cands)) ELSE list,
                   Tail(cands), aw)

\* set.update(generate_all_forms(w.lower()) for w in ws)
RECURSIVE FormsOfBest(_)
FormsOfBest(ws) ==
    IF ws = <<>> THEN {}
    ELSE generate_all_forms_best(Lower(Head(ws))) \cup FormsOfBest(Tail(ws))

RECURSIVE FormsOfTruly(_)
FormsOfTruly(ws) ==
    IF ws = <<>> THEN {}
    ELSE generate_all_forms_truly(Lower(Head(ws))) \cup FormsOfTruly(Tail(ws))

\* ---- create_best_readable_dictionary.main: its literal lists, reduced ----

\* the fallback top_words
default_top_words == <<<<"t", "h", "e">>, <<"b", "e">>, <<"a">>>>

tech_prefixes   == <<<<"w", "e", "b">>>>
tech_suffixes   == <<<<"s", "i", "t", "e">>>>
time_words      == <<<<"s", "u", "n">>>>
time_suffixes   == <<<<"s", "e", "t">>, <<"r", "i", "s", "e">>>>
best_colors     == <<<<"r", "e", "d">>>>
color_objects   == <<<<"b", "i", "r", "d">>>>
action_prefixes == <<<<"o", "v", "e", "r">>>>
action_bases    == <<<<"l", "o", "o", "k">>>>
nature_pairs    == << <<<<"r", "a", "i", "n">>, <<"d", "r", "o", "p">>>> >>
everyday_compounds == <<<<"n", "e", "v", "e", "r", "t", "h", "e", "l", "e", "s", "s">>>>
two_letter_words   == <<<<"a", "m">>, <<"b", "e">>>>
three_letter       == <<<<"t", "h", "e">>, <<"d", "i", "d">>, <<"d", "i", "d">>>>

ones  == <<<<"z", "e", "r", "o">>, <<"o", "n", "e">>>>
teens == <<<<"t", "e", "n">>>>
tens  == <<<<"t", "w", "e", "n", "t", "y">>>>
simple_adj   == <<<<"b", "i", "g">>>>
simple_nouns == <<<<"b", "o", "x">>>>

vowels == <<"a">>
common_consonants == <<"b", "d">>

patterns == <<<<"a", "b", "c">>, <<"b", "a", "t">>, <<"c", "a", "t">>, <<"b", "a", "t">>>>

\* ---- create_truly_readable_dictionary.main: its literal lists, reduced ----

core_words == <<<<"t", "h", "e">>, <<"a">>, <<"b", "e">>, <<"t", "r", "y">>, <<"h", "a", "p", "p", "y">>>>
truly_compounds == <<<<"w", "e", "b", "s", "i", "t", "e">>, <<"n", "o", " ", "o", "n", "e">>, <<"t", "o", "d", "a", "y">>>>
numbers    == <<<<"z", "e", "r", "o">>, <<"o", "n", "e">>>>
two_letter == <<<<"a", "m">>, <<"b", "e">>>>
truly_colors == <<<<"r", "e", "d">>>>
actions    == <<<<"r", "u", "n">>>>
simple_prefixes == <<<<"a">>, <<"u", "n">>>>
simple_bases    == <<<<"a", "b", "l", "e">>, <<"a", "c", "t">>, <<"a", "g", "e">>>>

\* the slice simple_bases[:200], scaled down
BasesLimit == 2

BuildInit ==
    /\ script \in {"best", "truly"}
    /\ csv \in IF script = "best"
               THEN {[exists |-> FALSE, words |-> <<>>]} \cup
                    {[exists |-> TRUE, words |-> ws] :
                        ws \in SeqsUpTo(CsvWords, MaxCsvWords)}
               ELSE {[exists |-> FALSE, words |-> <<>>]}
    /\ top_words = <<>>
    /\ all_words = {}
    /\ word_list = <<>>
    /\ saved = <<>>
    /\ bpc = "forms"

\* create_best main, lines 227-254: the base words are read (or defaulted)
\* and their forms generated
BestForms ==
    /\ bpc = "forms"
    /\ script = "best"
    /\ LET tw == IF csv.exists THEN csv.words ELSE default_top_words
       IN  /\ top_words' = tw
           /\ all_words' = FormsOfBest(SubSeq(tw, 1,
                   IF Len(tw) < TopLimit THEN Len(tw) ELSE TopLimit))
    /\ bpc' = "compounds"
    /\ UNCHANGED <<script, csv, word_list, saved>>
    /\ UNCHANGED nonBuildVars

\* create_best main, lines 262-334: the list compounds
BestCompoundsList ==
    Range(Pairs(tech_prefixes, tech_suffixes))
    \cup {c \in Range(Pairs(time_words, time_suffixes)) :
             c \notin all_words /\ Len(c) <= 12}
    \cup Range(Pairs(best_colors, color_objects))
    \cup Range(Pairs(action_prefixes, action_bases))
    \cup {p[1] \o p[2] : p \in Range(nature_pairs)}
    \cup Range(everyday_compounds)

\* create_best main, lines 259-365: compounds and short words are added and
\* the sorted list is made
BestCompounds ==
    /\ bpc = "compounds"
    /\ script = "best"
    /\ LET aw == all_words
                 \cup {c \in BestCompoundsList : Len(c) <= 12 /\ IsAlpha(c)}
                 \cup Range(two_letter_words)
                 \cup Range(three_letter)
       IN  /\ all_words' = aw
           /\ word_list' = Sorted(aw)
    /\ bpc' = "fill"
    /\ UNCHANGED <<script, csv, top_words, saved>>
    /\ UNCHANGED nonBuildVars

\* create_best main, lines 372-390: number_words
number_words ==
    Range(ones) \cup Range(teens) \cup Range(tens)
    \cup {ones[i] \o <<"h", "u", "n", "d", "r", "e", "d">> : i \in 2..Len(ones)}
    \cup Range(Pairs(tens, SubSeq(ones, 2, Len(ones))))

\* create_best main, lines 409-441: the pattern words in loop order
CVC ==
    [k \in 1..(Len(common_consonants) * Len(vowels) * Len(common_consonants)) |->
        LET n  == Len(common_consonants)
            m  == Len(vowels)
            c1 == ((k - 1) \div (m * n)) + 1
            v  == (((k - 1) \div n) % m) + 1
            c2 == ((k - 1) % n) + 1
        IN  <<common_consonants[c1], vowels[v], common_consonants[c2]>>]

DoubledConsonant ==
    [k \in 1..(Len(common_consonants) * Len(vowels)) |->
        LET m == Len(vowels)
            c == ((k - 1) \div m) + 1
            v == ((k - 1) % m) + 1
        IN  <<common_consonants[c], vowels[v], common_consonants[c],
              common_consonants[c]>>]

CVCC ==
    [k \in 1..(Len(common_consonants) * Len(vowels) * Len(common_consonants)
                 * Len(common_consonants)) |->
        LET n  == Len(common_consonants)
            m  == Len(vowels)
            c1 == ((k - 1) \div (m * n * n)) + 1
            v  == (((k - 1) \div (n * n)) % m) + 1
            c2 == (((k - 1) \div n) % n) + 1
            c3 == ((k - 1) % n) + 1
        IN  <<common_consonants[c1], vowels[v], common_consonants[c2],
              common_consonants[c3]>>]

\* create_best main, lines 368-443: numbers, adjective+noun words and the
\* pattern words are added while the list is short
BestFill ==
    /\ bpc = "fill"
    /\ script = "best"
    /\ IF Len(word_list) < DictSize
       THEN LET aw == all_words \cup number_words
                      \cup {w \in Range(Pairs(simple_adj, simple_nouns)) :
                               Len(w) <= 12}
                wl == Sorted(aw)
            IN  /\ all_words' = aw
                /\ word_list' =
                      IF Len(wl) < DictSize
                      THEN AppendNew(AppendNew(AppendNew(wl, CVC, aw),
                                               DoubledConsonant, aw),
                                     CVCC, aw)
                      ELSE wl
       ELSE UNCHANGED <<all_words, word_list>>
    /\ bpc' = "ensure"
    /\ UNCHANGED <<script, csv, top_words, saved>>
    /\ UNCHANGED nonBuildVars

\* create_best main, lines 449-460: the final padding loop
RECURSIVE PadPatterns(_, _)
PadPatterns(list, pattern_idx) ==
    IF Len(list) >= DictSize THEN list
    ELSE PadPatterns(
            Append(list, patterns[(pattern_idx % Len(patterns)) + 1]
                         \o ZeroPad(pattern_idx \div Len(patterns), 4)),
            pattern_idx + 1)

\* create_best main, lines 446-460: exactly 65536 words
BestEnsure ==
    /\ bpc = "ensure"
    /\ script = "best"
    /\ word_list' = IF Len(word_list) > DictSize
                    THEN SubSeq(word_list, 1, DictSize)
                    ELSE PadPatterns(word_list, 0)
    /\ bpc' = "save"
    /\ UNCHANGED <<script, csv, top_words, all_words, saved>>
    /\ UNCHANGED nonBuildVars

\* create_truly main, lines 155-232: the forms of the core words
TrulyForms ==
    /\ bpc = "forms"
    /\ script = "truly"
    /\ all_words' = FormsOfTruly(core_words)
    /\ bpc' = "compounds"
    /\ UNCHANGED <<script, csv, top_words, word_list, saved>>
    /\ UNCHANGED nonBuildVars

\* create_truly main, lines 237-297: compounds, numbers, short words, colours
\* and actions are added and the sorted list is made
TrulyCompounds ==
    /\ bpc = "compounds"
    /\ script = "truly"
    /\ LET aw == all_words \cup Range(truly_compounds) \cup Range(numbers)
                 \cup Range(two_letter) \cup Range(truly_colors)
                 \cup Range(actions)
       IN  /\ all_words' = aw
           /\ word_list' = Sorted(aw)
    /\ bpc' = "fill"
    /\ UNCHANGED <<script, csv, top_words, saved>>
    /\ UNCHANGED nonBuildVars

\* create_truly main, lines 420-427: the prefix + base loop with its breaks
RECURSIVE AddPrefixed(_, _)
AddPrefixed(aw, cands) ==
    IF cands = <<>> \/ Cardinality(aw) >= DictSize THEN aw
    ELSE AddPrefixed(IF Len(Head(cands)) <= 12 /\ Head(cands) \notin aw
                     THEN aw \cup {Head(cands)} ELSE aw,
                     Tail(cands))

\* create_truly main, lines 302-427: the prefix + base fill
TrulyFill ==
    /\ bpc = "fill"
    /\ script = "truly"
    /\ all_words' =
          IF Len(word_list) < DictSize
          THEN AddPrefixed(all_words,
                           Pairs(simple_prefixes,
                                 SubSeq(simple_bases, 1,
                                        IF Len(simple_bases) < BasesLimit
                                        THEN Len(simple_bases) ELSE BasesLimit)))
          ELSE all_words
    /\ bpc' = "ensure"
    /\ UNCHANGED <<script, csv, top_words, word_list, saved>>
    /\ UNCHANGED nonBuildVars

\* create_truly main, lines 433-439: the last-resort padding
RECURSIVE PadWords(_, _)
PadWords(list, idx) ==
    IF Len(list) >= DictSize THEN list
    ELSE PadWords(Append(list, <<"w", "o", "r", "d">> \o ZeroPad(idx, 5)), idx + 1)

\* create_truly main, lines 430-439: exactly 65536 words
TrulyEnsure ==
    /\ bpc = "ensure"
    /\ script = "truly"
    /\ LET wl == Sorted(all_words)
           cut == SubSeq(wl, 1, IF Len(wl) < DictSize THEN Len(wl) ELSE DictSize)
       IN  word_list' = PadWords(cut, 0)
    /\ bpc' = "save"
    /\ UNCHANGED <<script, csv, top_words, all_words, saved>>
    /\ UNCHANGED nonBuildVars

\* create_best main, lines 463-464, and create_truly main, lines 442-443:
\* the list is written
SaveDictionary ==
    /\ bpc = "save"
    /\ saved' = word_list
    /\ bpc' = "done"
    /\ UNCHANGED <<script, csv, top_words, all_words, word_list>>
    /\ UNCHANGED nonBuildVars

BuildNext ==
    \/ BestForms
    \/ BestCompounds
    \/ BestFill
    \/ BestEnsure
    \/ TrulyForms
    \/ TrulyCompounds
    \/ TrulyFill
    \/ TrulyEnsure
    \/ SaveDictionary

-----------------------------------------------------------------------------
(* fix_dictionary_duplicates.py, scripts/fix_dictionary_size.py and        *)
(* data/words_research/fix_dictionary_count.py                             *)

\* the size the three scripts bring the dictionary to: 65536, scaled down
FixTarget == 3

\* "word00000"
word00000 == <<"w", "o", "r", "d">> \o ZeroPad(0, 5)

\* the lines the dictionary file can hold when fix_dictionary_duplicates runs
DupDictLines == {ab, ba, <<"a", "b", " ">>, word00000}

\* the lines the dictionary file can hold when a size fixer runs
SizeDictLines == {ab, ba, <<" ">>}

\* the frequency lists of the model: absent, empty, plentiful, one with a
\* repeated word, one whose lines the filters have to judge
FreqLists ==
    {[exists |-> FALSE, lines |-> <<>>],
     [exists |-> TRUE,  lines |-> <<>>],
     [exists |-> TRUE,  lines |-> <<bb, bab, abb, bad>>],
     [exists |-> TRUE,  lines |-> <<bb, bb, bab, abb>>],
     [exists |-> TRUE,  lines |-> <<<<" ", "A", "b">>, a_b, <<"b">>,
                                    <<"b", "é">>, bb>>]}

\* the second lists fix_dictionary_count can fall back to
AltLists ==
    {[exists |-> FALSE, lines |-> <<>>],
     [exists |-> TRUE,  lines |-> <<bb, bab>>],
     [exists |-> TRUE,  lines |-> <<bab, abb, big, bad>>]}

\* [line.strip() for line in f if line.strip()]
StrippedLines(f) ==
    LET keep == SelectSeq(f, LAMBDA l : Strip(l) # <<>>)
    IN  [i \in 1..Len(keep) |-> Strip(keep[i])]

\* all(ord(c) < 128 for c in word)
IsAscii(word) == \A i \in 1..Len(word) : word[i] \notin NonAsciiLetters

\* s[:n], for any integer n
SliceTo(s, n) ==
    IF n >= 0 THEN SubSeq(s, 1, IF n < Len(s) THEN n ELSE Len(s))
    ELSE SubSeq(s, 1, IF Len(s) + n > 0 THEN Len(s) + n ELSE 0)

\* fix_dictionary_duplicates.main, lines 14-19: first occurrences, in order
RECURSIVE Unique(_, _)
Unique(ws, acc) ==
    IF ws = <<>> THEN acc
    ELSE Unique(Tail(ws),
                IF Head(ws) \in Range(acc) THEN acc ELSE Append(acc, Head(ws)))

\* mutant of PadFresh: the numbered word is not tested against seen
PadFreshUntested(new_word, seen_words) == new_word = new_word

\* fix_dictionary_duplicates.main, line 32
PadFresh(new_word, seen_words) == new_word \notin seen_words

\* fix_dictionary_duplicates.main, lines 30-35: the padding loop
RECURSIVE PadNumbered(_, _, _)
PadNumbered(unique_words, seen_words, idx) ==
    IF Len(unique_words) >= FixTarget THEN unique_words
    ELSE LET new_word == <<"w", "o", "r", "d">> \o ZeroPad(idx, 5)
         IN  IF PadFresh(new_word, seen_words)
             THEN PadNumbered(Append(unique_words, new_word),
                              seen_words \cup {new_word}, idx + 1)
             ELSE PadNumbered(unique_words, seen_words, idx + 1)

\* fix_dictionary_size, lines 39-50, and fix_dictionary_count, lines 44-55 and
\* 62-74: the words a frequency list supplies; the loop breaks once it has
\* appended and holds words_needed words.  lower: the line is lower-cased;
\* fresh: words already collected are passed over
RECURSIVE Collect(_, _, _, _, _, _)
Collect(lines, acc, needed, existing, lower, fresh) ==
    IF lines = <<>> THEN acc
    ELSE LET word == IF lower THEN Lower(Strip(Head(lines)))
                     ELSE Strip(Head(lines))
             ok   == /\ word # <<>>
                     /\ IsAlpha(word)
                     /\ Len(word) >= 2
                     /\ IsAscii(word)
                     /\ word \notin existing
                     /\ fresh => word \notin Range(acc)
         IN  IF ok
             THEN IF Len(acc) + 1 >= needed THEN Append(acc, word)
                  ELSE Collect(Tail(lines), Append(acc, word), needed, existing,
                               lower, fresh)
             ELSE Collect(Tail(lines), acc, needed, existing, lower, fresh)

\* mutant of CountReached: the final count is not tested
CountReachedUntested(final_count) == final_count = final_count

\* fix_dictionary_count, line 81
CountReached(final_count) == final_count = FixTarget

FixInit ==
    /\ tool \in {"duplicates", "size", "count"}
    /\ dict_lines \in IF tool = "duplicates"
                      THEN SeqsUpTo(DupDictLines, FixTarget + 1)
                      ELSE SeqsUpTo(SizeDictLines, FixTarget + 1)
    /\ freq_list \in IF tool = "duplicates"
                     THEN {[exists |-> FALSE, lines |-> <<>>]} ELSE FreqLists
    /\ alt_list \in IF tool = "count"
                    THEN AltLists ELSE {[exists |-> FALSE, lines |-> <<>>]}
    /\ fix_words = <<>>
    /\ replacement_words = <<>>
    /\ words_needed = 0
    /\ current_count = 0
    /\ printed = {}
    /\ wrote = FALSE
    /\ xpc = "read"

\* fix_dictionary_duplicates.main, lines 8-22: read, drop later occurrences
DedupRead ==
    /\ xpc = "read"
    /\ tool = "duplicates"
    /\ current_count' = Len(StrippedLines(dict_lines))
    /\ fix_words' = Unique(StrippedLines(dict_lines), <<>>)
    /\ printed' = printed \cup {"counts"}
    /\ xpc' = "pad"
    /\ UNCHANGED <<tool, dict_lines, freq_list, alt_list, replacement_words,
                   words_needed, wrote>>
    /\ UNCHANGED nonFixVars

\* fix_dictionary_duplicates.main, lines 25-38: pad a shortfall, cut a surplus
DedupPad ==
    /\ xpc = "pad"
    /\ tool = "duplicates"
    /\ LET padded == IF Len(fix_words) < FixTarget
                     THEN PadNumbered(fix_words, Range(fix_words), 0)
                     ELSE fix_words
       IN  /\ fix_words' = SliceTo(padded, FixTarget)
           /\ printed' = IF Len(fix_words) < FixTarget
                         THEN printed \cup {"need"} ELSE printed
    /\ xpc' = "write"
    /\ UNCHANGED <<tool, dict_lines, freq_list, alt_list, replacement_words,
                   words_needed, current_count, wrote>>
    /\ UNCHANGED nonFixVars

\* fix_dictionary_duplicates.main, lines 41-45: write back
DedupWrite ==
    /\ xpc = "write"
    /\ tool = "duplicates"
    /\ dict_lines' = fix_words
    /\ wrote' = TRUE
    /\ printed' = printed \cup {"fixed"}
    /\ xpc' = "done"
    /\ UNCHANGED <<tool, freq_list, alt_list, fix_words, replacement_words,
                   words_needed, current_count>>
    /\ UNCHANGED nonFixVars

\* fix_dictionary_size, lines 22-34: read; nothing to do when no word is needed
SizeRead ==
    /\ xpc = "read"
    /\ tool = "size"
    /\ LET cw == StrippedLines(dict_lines)
           needed == FixTarget - Len(cw)
       IN  /\ fix_words' = cw
           /\ current_count' = Len(cw)
           /\ words_needed' = needed
           /\ IF needed <= 0
              THEN /\ printed' = printed \cup {"enough"}
                   /\ xpc' = "done"
              ELSE /\ printed' = printed \cup {"need"}
                   /\ xpc' = "collect"
    /\ UNCHANGED <<tool, dict_lines, freq_list, alt_list, replacement_words, wrote>>
    /\ UNCHANGED nonFixVars

\* fix_dictionary_size, line 40: open() of a missing frequency list raises
SizeNoList ==
    /\ xpc = "collect"
    /\ tool = "size"
    /\ ~freq_list.exists
    /\ printed' = printed \cup {"traceback"}
    /\ xpc' = "done"
    /\ UNCHANGED <<tool, dict_lines, freq_list, alt_list, fix_words,
                   replacement_words, words_needed, current_count, wrote>>
    /\ UNCHANGED nonFixVars

\* fix_dictionary_size, lines 37-55: replacement words are collected and added
SizeCollect ==
    /\ xpc = "collect"
    /\ tool = "size"
    /\ freq_list.exists
    /\ LET found == Collect(freq_list.lines, <<>>, words_needed,
                            Range(fix_words), FALSE, FALSE)
       IN  /\ replacement_words' = found
           /\ fix_words' = fix_words \o SliceTo(found, words_needed)
    /\ printed' = printed \cup {"found"}
    /\ xpc' = "verify"
    /\ UNCHANGED <<tool, dict_lines, freq_list, alt_list, words_needed,
                   current_count, wrote>>
    /\ UNCHANGED nonFixVars

\* fix_dictionary_size, lines 58-60: duplicates in the final list
SizeDuplicates ==
    /\ xpc = "verify"
    /\ tool = "size"
    /\ Cardinality(Range(fix_words)) # Len(fix_words)
    /\ printed' = printed \cup {"ERROR"}
    /\ xpc' = "done"
    /\ UNCHANGED <<tool, dict_lines, freq_list, alt_list, fix_words,
                   replacement_words, words_needed, current_count, wrote>>
    /\ UNCHANGED nonFixVars

\* fix_dictionary_size, lines 62-69: the list is written
SizeWrite ==
    /\ xpc = "verify"
    /\ tool = "size"
    /\ Cardinality(Range(fix_words)) = Len(fix_words)
    /\ dict_lines' = fix_words
    /\ wrote' = TRUE
    /\ printed' = printed \cup {"fixed"}
    /\ xpc' = "done"
    /\ UNCHANGED <<tool, freq_list, alt_list, fix_words, replacement_words,
                   words_needed, current_count>>
    /\ UNCHANGED nonFixVars

\* fix_dictionary_count, lines 22-33: read; nothing to do at exactly 65536
CountRead ==
    /\ xpc = "read"
    /\ tool = "count"
    /\ LET ws == StrippedLines(dict_lines)
       IN  /\ fix_words' = ws
           /\ current_count' = Len(ws)
           /\ IF Len(ws) = FixTarget
              THEN /\ printed' = printed \cup {"already"}
                   /\ xpc' = "done"
                   /\ UNCHANGED words_needed
              ELSE /\ printed' = printed \cup {"need"}
                   /\ xpc' = "collect"
                   /\ words_needed' = FixTarget - Len(ws)
    /\ UNCHANGED <<tool, dict_lines, freq_list, alt_list, replacement_words, wrote>>
    /\ UNCHANGED nonFixVars

\* fix_dictionary_count, lines 38-77: both lists are consulted and the words
\* found are added
CountCollect ==
    /\ xpc = "collect"
    /\ tool = "count"
    /\ LET existing == Range(fix_words)
           first == IF freq_list.exists
                    THEN Collect(freq_list.lines, <<>>, words_needed, existing,
                                 TRUE, FALSE)
                    ELSE <<>>
           short == Len(first) < words_needed
           found == IF short /\ alt_list.exists
                    THEN Collect(alt_list.lines, first, words_needed, existing,
                                 TRUE, TRUE)
                    ELSE first
       IN  /\ replacement_words' = found
           /\ fix_words' = fix_words \o SliceTo(found, words_needed)
           /\ printed' = IF short THEN printed \cup {"WARNING"} ELSE printed
    /\ xpc' = "final"
    /\ UNCHANGED <<tool, dict_lines, freq_list, alt_list, words_needed,
                   current_count, wrote>>
    /\ UNCHANGED nonFixVars

\* fix_dictionary_count, lines 81-83: the count is not 65536
CountError ==
    /\ xpc = "final"
    /\ tool = "count"
    /\ ~CountReached(Len(fix_words))
    /\ printed' = printed \cup {"ERROR"}
    /\ xpc' = "done"
    /\ UNCHANGED <<tool, dict_lines, freq_list, alt_list, fix_words,
                   replacement_words, words_needed, current_count, wrote>>
    /\ UNCHANGED nonFixVars

\* fix_dictionary_count, lines 85-91: the list is written
CountWrite ==
    /\ xpc = "final"
    /\ tool = "count"
    /\ CountReached(Len(fix_words))
    /\ dict_lines' = fix_words
    /\ wrote' = TRUE
    /\ printed' = printed \cup {"updated"}
    /\ xpc' = "done"
    /\ UNCHANGED <<tool, freq_list, alt_list, fix_words, replacement_words,
                   words_needed, current_count>>
    /\ UNCHANGED nonFixVars

FixNext ==
    \/ DedupRead
    \/ DedupPad
    \/ DedupWrite
    \/ SizeRead
    \/ SizeNoList
    \/ SizeCollect
    \/ SizeDuplicates
    \/ SizeWrite
    \/ CountRead
    \/ CountCollect
    \/ CountError
    \/ CountWrite

-----------------------------------------------------------------------------
(* data/words_research/filter_with_claude.py                               *)

\* target_count of run_multi_stage_filtering: 65536, scaled down
FilterTarget == 50

\* batch_size of create_batches: 10000, scaled down
BatchSize == 10

\* bound on the number of words of the input list
MaxFilterInput == 80

\* essential_2_letter, reduced
essential_2_letter == {to, <<"b", "e">>}

\* retention_rates, in tenths
retention_rates(filter_level) ==
    CASE filter_level = "light"  -> 9
      [] filter_level = "medium" -> 8
      [] filter_level = "final"  -> 7
      [] OTHER -> 8

\* the i-th word of a frequency list of distinct words
RankedWord(i) == <<"w", "o", "r", "d">> \o ZeroPad(i, 5)

\* the input lists of the model: n distinct words; the same with an essential
\* word last; the same with the first word repeated last
FilterInputs ==
    UNION {{[i \in 1..n |-> RankedWord(i)],
            [i \in 1..n |-> IF i = n THEN to ELSE RankedWord(i)],
            [i \in 1..n |-> IF i = n THEN RankedWord(1) ELSE RankedWord(i)]} :
           n \in 0..MaxFilterInput}

\* create_batches, lines 35-40: the number of batches
BatchCount(ws) == (Len(ws) + BatchSize - 1) \div BatchSize

\* create_batches, line 39: words[i:i + batch_size] of batch number b
Batch(ws, b) ==
    SubSeq(ws, (b - 1) * BatchSize + 1,
           IF b * BatchSize < Len(ws) THEN b * BatchSize ELSE Len(ws))

\* process_batch_simulation, lines 126-132: the verdict the dict holds for a
\* word is the one of its last occurrence in the batch
process_batch_simulation(ws, filter_level) ==
    [word \in Range(ws) |->
        LET i == (CHOOSE k \in 1..Len(ws) :
                     /\ ws[k] = word
                     /\ \A j \in (k + 1)..Len(ws) : ws[j] # word) - 1
        IN  IF word \in essential_2_letter THEN "KEEP"
            ELSE IF 10 * i < Len(ws) * retention_rates(filter_level)
                 THEN "KEEP"
                 ELSE "REMOVE"]

\* run_filtering_stage, lines 152-159: the kept ws of batches b..last
RECURSIVE KeptFrom(_, _, _)
KeptFrom(ws, b, filter_level) ==
    IF b > BatchCount(ws) THEN <<>>
    ELSE LET batch   == Batch(ws, b)
             results == process_batch_simulation(batch, filter_level)
         IN  SelectSeq(batch, LAMBDA word : results[word] = "KEEP")
             \o KeptFrom(ws, b + 1, filter_level)

\* run_filtering_stage, lines 143-163
run_filtering_stage(ws, filter_level) == KeptFrom(ws, 1, filter_level)

FilterInit ==
    /\ all_words_in \in FilterInputs
    /\ current_words = all_words_in
    /\ intermediate = {}
    /\ wpc = "light"

\* run_multi_stage_filtering, lines 170-172: the light stage, if
\* len(current_words) > target_count * 1.5
StageLight ==
    /\ wpc = "light"
    /\ IF 2 * Len(current_words) > 3 * FilterTarget
       THEN /\ current_words' = run_filtering_stage(current_words, "light")
            /\ intermediate' = intermediate \cup {"light"}
       ELSE UNCHANGED <<current_words, intermediate>>
    /\ wpc' = "medium"
    /\ UNCHANGED all_words_in
    /\ UNCHANGED nonFilterVars

\* run_multi_stage_filtering, lines 175-177: the medium stage, if
\* len(current_words) > target_count * 1.2
StageMedium ==
    /\ wpc = "medium"
    /\ IF 5 * Len(current_words) > 6 * FilterTarget
       THEN /\ current_words' = run_filtering_stage(current_words, "medium")
            /\ intermediate' = intermediate \cup {"medium"}
       ELSE UNCHANGED <<current_words, intermediate>>
    /\ wpc' = "final"
    /\ UNCHANGED all_words_in
    /\ UNCHANGED nonFilterVars

\* run_multi_stage_filtering, lines 180-186: the final cut and the return
StageFinal ==
    /\ wpc = "final"
    /\ IF Len(current_words) > FilterTarget
       THEN /\ current_words' = SubSeq(current_words, 1, FilterTarget)
            /\ intermediate' = intermediate \cup {"final"}
       ELSE UNCHANGED <<current_words, intermediate>>
    /\ wpc' = "done"
    /\ UNCHANGED all_words_in
    /\ UNCHANGED nonFilterVars

FilterNext ==
    \/ StageLight
    \/ StageMedium
    \/ StageFinal

-----------------------------------------------------------------------------
(* create_readable_dictionary.py                                           *)

\* the size of the dictionary main writes: 65536, scaled down
ReadableSize == 3

\* bound on the lines of each word source
MaxSourceLines == 2

\* the lines data/google-10000-english.txt can hold
GoogleLines == {<<"t", "h", "e">>, <<"b", "e">>, damn, <<"t", "h", "e", " ">>}

\* the lines data/words_alpha.txt can hold
AlphaLines == {<<"t", "h", "e">>, bab, a_b}

\* the words and positions calculate_readability_score is called with alone
ScoreWords ==
    {<<"t", "h", "e">>, <<"b", "e">>, to, damn, a_b, bab, understanding, <<"d", "e", "v", "e", "l", "o", "p">>, <<"i", "n", "c", "l", "u", "d", "e">>,
     <<"T", "h", "e">>}

ScorePositions == {0, 999, 1000, 4999, 5000, 9999, 10000, 19999, 20000, 50000}

\* the fallback Dale-Chall words, reduced to those the model's words can hit
fallback_dale_chall == {<<"t", "h", "e">>, <<"b", "e">>, to, <<"i", "n", "c", "l", "u", "d", "e">>}

\* load_oxford_pdfs: oxford_words, reduced; "C2" stands for a missing key
oxford_words(word) ==
    CASE word = <<"t", "h", "e">> -> "A1"
      [] word = <<"b", "e">> -> "A1"
      [] word = <<"i", "n", "c", "l", "u", "d", "e">> -> "B1"
      [] word = <<"d", "e", "v", "e", "l", "o", "p">> -> "B2"
      [] OTHER -> "C2"

\* load_offensive_words, reduced
offensive_words == {damn, ass}

\* the words of the CMU pronouncing dictionary among the model's words
cmu_dict == {<<"t", "h", "e">>, <<"b", "e">>, to, damn, understanding, <<"d", "e", "v", "e", "l", "o", "p">>, <<"i", "n", "c", "l", "u", "d", "e">>}

\* count_syllables: the vowel sounds of the CMU entry, else textstat's count
count_syllables(word) ==
    LET word_lower == Lower(word)
    IN  CASE word_lower \in {<<"t", "h", "e">>, <<"b", "e">>, to, damn} -> 1
          [] word_lower = <<"i", "n", "c", "l", "u", "d", "e">> -> 2
          [] word_lower = <<"d", "e", "v", "e", "l", "o", "p">> -> 3
          [] word_lower = understanding -> 4
          [] OTHER -> 1

\* is_phonetically_regular
is_phonetically_regular(word) == Lower(word) \in cmu_dict

\* get_word_frequency_score, in tenths
get_word_frequency_score(position_in_list) ==
    IF position_in_list < 1000 THEN 10
    ELSE IF position_in_list < 5000 THEN 8
    ELSE IF position_in_list < 10000 THEN 6
    ELSE IF position_in_list < 20000 THEN 4
    ELSE 2

\* get_cefr_score, in tenths
get_cefr_score(word) ==
    LET level == oxford_words(Lower(word))
    IN  CASE level = "A1" -> 10
          [] level = "A2" -> 9
          [] level = "B1" -> 7
          [] level = "B2" -> 5
          [] level = "C1" -> 3
          [] OTHER -> 1

\* mutant of weights: the CEFR weight is 0.25
weights_heavy ==
    [syllable |-> 20, length |-> 10, dale_chall |-> 20, cefr |-> 25,
     frequency |-> 20, phonetic |-> 10, clean |-> 3, appropriate |-> 2]

\* calculate_readability_score, lines 341-350: weights, in hundredths
weights ==
    [syllable |-> 20, length |-> 10, dale_chall |-> 20, cefr |-> 15,
     frequency |-> 20, phonetic |-> 10, clean |-> 3, appropriate |-> 2]

\* calculate_readability_score: the criterion scores in tenths, the total in
\* thousandths
calculate_readability_score(word, position) ==
    LET syllables == count_syllables(word)
        length    == Len(word)
        sc == [syllable    |-> IF syllables = 1 THEN 10
                               ELSE IF syllables = 2 THEN 9
                               ELSE IF syllables = 3 THEN 6 ELSE 2,
               length      |-> IF 3 <= length /\ length <= 5 THEN 10
                               ELSE IF 6 <= length /\ length <= 7 THEN 8
                               ELSE IF length = 2 \/ length = 8 THEN 6
                               ELSE IF length = 9 THEN 4 ELSE 2,
               dale_chall  |-> IF Lower(word) \in dale_chall_words THEN 10 ELSE 3,
               cefr        |-> get_cefr_score(word),
               frequency   |-> get_word_frequency_score(position),
               phonetic    |-> IF is_phonetically_regular(word) THEN 10 ELSE 5,
               clean       |-> IF IsAlpha(word) THEN 10 ELSE 0,
               appropriate |-> IF Lower(word) \in offensive_words THEN 0 ELSE 10]
    IN  [word |-> word, position |-> position,
         syllable |-> sc.syllable, length |-> sc.length,
         dale_chall |-> sc.dale_chall, cefr |-> sc.cefr,
         frequency |-> sc.frequency, phonetic |-> sc.phonetic,
         clean |-> sc.clean, appropriate |-> sc.appropriate,
         total |-> sc.syllable * weights.syllable + sc.length * weights.length
                   + sc.dale_chall * weights.dale_chall + sc.cefr * weights.cefr
                   + sc.frequency * weights.frequency
                   + sc.phonetic * weights.phonetic + sc.clean * weights.clean
                   + sc.appropriate * weights.appropriate]

\* load_existing_word_lists, lines 360-366 and 369-376: the entries one file
\* gives; positions count every line of the file from 0
SourceEntries(file, max_len, alpha_only, offset) ==
    IF ~file.exists THEN <<>>
    ELSE LET idx == SelectSeq([i \in 1..Len(file.lines) |-> i],
                        LAMBDA i : LET word == Strip(file.lines[i])
                                   IN  /\ word # <<>>
                                       /\ 2 <= Len(word)
                                       /\ Len(word) <= max_len
                                       /\ alpha_only => IsAlpha(word))
         IN  [k \in 1..Len(idx) |->
                 <<Strip(file.lines[idx[k]]), idx[k] - 1 + offset>>]

load_existing_word_lists ==
    SourceEntries(google_file, 12, FALSE, 0)
    \o SourceEntries(alpha_file, 10, TRUE, 10000)

\* the contents a word source can have
SourceFiles(lines) ==
    {[exists |-> FALSE, lines |-> <<>>]} \cup
    {[exists |-> TRUE, lines |-> ls] : ls \in SeqsUpTo(lines, MaxSourceLines)}

ReadableInit ==
    /\ entry \in {"main", "score"}
    /\ dale_chall_words \in {{}, fallback_dale_chall}
    /\ IF entry = "main"
       THEN /\ google_file \in SourceFiles(GoogleLines)
            /\ alpha_file \in SourceFiles(AlphaLines)
            /\ words_with_position = <<>>
            /\ ypc = "load"
       ELSE /\ google_file = [exists |-> FALSE, lines |-> <<>>]
            /\ alpha_file = [exists |-> FALSE, lines |-> <<>>]
            /\ words_with_position \in
                  {<<<<w, p>>>> : w \in ScoreWords, p \in ScorePositions}
            /\ ypc = "call"
    /\ scored_words = <<>>
    /\ selected = <<>>
    /\ output_words = <<>>
    /\ said = {}

\* calculate_readability_score called with one word and position
CallScore ==
    /\ ypc = "call"
    /\ scored_words' =
          <<calculate_readability_score(words_with_position[1][1],
                                        words_with_position[1][2])>>
    /\ ypc' = "done"
    /\ UNCHANGED <<entry, google_file, alpha_file, dale_chall_words,
                   words_with_position, selected, output_words, said>>
    /\ UNCHANGED nonReadableVars

\* main, lines 430-432: the word sources are loaded
LoadLists ==
    /\ ypc = "load"
    /\ words_with_position' = load_existing_word_lists
    /\ said' = said \cup {"loaded"}
    /\ ypc' = "score"
    /\ UNCHANGED <<entry, google_file, alpha_file, dale_chall_words,
                   scored_words, selected, output_words>>
    /\ UNCHANGED nonReadableVars

\* main, lines 434-449: every candidate is scored; offensive and unclean
\* words are dropped
ScoreAll ==
    /\ ypc = "score"
    /\ LET all == [i \in 1..Len(words_with_position) |->
                      calculate_readability_score(words_with_position[i][1],
                                                  words_with_position[i][2])]
       IN  scored_words' =
              SelectSeq(all, LAMBDA s : s.appropriate > 0 /\ s.clean > 0)
    /\ ypc' = "select"
    /\ UNCHANGED <<entry, google_file, alpha_file, dale_chall_words,
                   words_with_position, selected, output_words, said>>
    /\ UNCHANGED nonReadableVars

\* main, line 455: sort_values on a frame without rows has no column
\* 'total_score' and raises KeyError
SelectRaise ==
    /\ ypc = "select"
    /\ scored_words = <<>>
    /\ said' = said \cup {"traceback"}
    /\ ypc' = "done"
    /\ UNCHANGED <<entry, google_file, alpha_file, dale_chall_words,
                   words_with_position, scored_words, selected, output_words>>
    /\ UNCHANGED nonReadableVars

\* main, lines 451-458: the rows in descending total_score (rows of equal
\* score in any order), the first 65536 of them
SelectTop ==
    /\ ypc = "select"
    /\ scored_words # <<>>
    /\ \E order \in [1..Len(scored_words) -> 1..Len(scored_words)] :
          /\ \A i, j \in 1..Len(scored_words) : i # j => order[i] # order[j]
          /\ \A i \in 1..(Len(scored_words) - 1) :
                scored_words[order[i]].total >= scored_words[order[i + 1]].total
          /\ selected' =
                [k \in 1..(IF Len(scored_words) < ReadableSize
                           THEN Len(scored_words) ELSE ReadableSize) |->
                    scored_words[order[k]].word]
    /\ said' = said \cup {"statistics"}
    /\ ypc' = "save"
    /\ UNCHANGED <<entry, google_file, alpha_file, dale_chall_words,
                   words_with_position, scored_words, output_words>>
    /\ UNCHANGED nonReadableVars

\* main, lines 477-478: the padding loop
RECURSIVE PadOutput(_)
PadOutput(out) ==
    IF Len(out) >= ReadableSize THEN out
    ELSE PadOutput(Append(out, <<"w", "o", "r", "d">> \o ZeroPad(Len(out), 5)))

\* main, lines 473-487: the list is padded and saved
PadAndSave ==
    /\ ypc = "save"
    /\ output_words' = PadOutput(selected)
    /\ said' = said \cup {"saved"}
    /\ ypc' = "done"
    /\ UNCHANGED <<entry, google_file, alpha_file, dale_chall_words,
                   words_with_position, scored_words, selected>>
    /\ UNCHANGED nonReadableVars

ReadableNext ==
    \/ CallScore
    \/ LoadLists
    \/ ScoreAll
    \/ SelectRaise
    \/ SelectTop
    \/ PadAndSave

\* the state of a program that is not run
GenIdle ==
    /\ opts = [target_size |-> 0]
    /\ final_words = {}
    /\ out_file = <<>>
    /\ freq_current = 0
    /\ cycle = 0
    /\ passes = 0
    /\ gpc = "idle"
    /\ li = 0
    /\ seen = {}
    /\ added = 0
    /\ attempts = 0
    /\ wait = 0
    /\ end_reason = "none"
    /\ exit_status = -1
    /\ finished = FALSE

RefIdle ==
    /\ ropts = [batch_size |-> 0]
    /\ input_file = <<>>
    /\ bloom_fp = {}
    /\ words = <<>>
    /\ wordset = {}
    /\ bloom = {}
    /\ placeholders = <<>>
    /\ candidates = <<>>
    /\ bi = 0
    /\ nrec = 0
    /\ rattempts = 0
    /\ rwait = 0
    /\ log = [open |-> FALSE, rows |-> <<>>]
    /\ output = <<>>
    /\ written = FALSE
    /\ malformed = 0
    /\ rend = "none"
    /\ rpc = "idle"
    /\ rstatus = -1

VerIdle ==
    /\ dictionary_file = [exists |-> FALSE, lines |-> <<>>]
    /\ self_words = <<>>
    /\ word_set = {}
    /\ all_good = TRUE
    /\ found_homophones = {}
    /\ problematic_words = {}
    /\ verdict = "none"
    /\ vpc = "idle"
    /\ vstatus = -1

FormsIdle ==
    /\ variant = "none"
    /\ base = <<>>
    /\ forms = {}
    /\ fpc = "idle"

BuildIdle ==
    /\ script = "none"
    /\ csv = [exists |-> FALSE, words |-> <<>>]
    /\ top_words = <<>>
    /\ all_words = {}
    /\ word_list = <<>>
    /\ saved = <<>>
    /\ bpc = "idle"

FixIdle ==
    /\ tool = "none"
    /\ dict_lines = <<>>
    /\ freq_list = [exists |-> FALSE, lines |-> <<>>]
    /\ alt_list = [exists |-> FALSE, lines |-> <<>>]
    /\ fix_words = <<>>
    /\ replacement_words = <<>>
    /\ words_needed = 0
    /\ current_count = 0
    /\ printed = {}
    /\ wrote = FALSE
    /\ xpc = "idle"

FilterIdle ==
    /\ all_words_in = <<>>
    /\ current_words = <<>>
    /\ intermediate = {}
    /\ wpc = "idle"

ReadableIdle ==
    /\ entry = "none"
    /\ google_file = [exists |-> FALSE, lines |-> <<>>]
    /\ alpha_file = [exists |-> FALSE, lines |-> <<>>]
    /\ dale_chall_words = {}
    /\ words_with_position = <<>>
    /\ scored_words = <<>>
    /\ selected = <<>>
    /\ output_words = <<>>
    /\ said = {}
    /\ ypc = "idle"

\* letter_wordlist_generator.py, run from the command line
Init == GenInit /\ RefIdle /\ VerIdle /\ FormsIdle /\ BuildIdle /\ FixIdle /\ FilterIdle /\ ReadableIdle

Next == GenNext

Spec == Init /\ [][Next]_vars

\* wordlist_openai_improver.py, run from the command line
InitRefine == RefInit /\ GenIdle /\ VerIdle /\ FormsIdle /\ BuildIdle /\ FixIdle /\ FilterIdle /\ ReadableIdle

SpecRefine == InitRefine /\ [][RefNext]_vars

\* both scripts, each run on its own from the command line
InitPipeline == Init \/ InitRefine

NextPipeline == Next \/ RefNext

SpecPipeline == InitPipeline /\ [][NextPipeline]_vars

\* the generator as a sequential program whose model calls return: it takes
\* a step whenever one is possible
FairSpec == Spec /\ WF_vars(Next)

\* verify_dictionary_quality.py, run from the command line
InitVerify == VerInit /\ GenIdle /\ RefIdle /\ FormsIdle /\ BuildIdle /\ FixIdle /\ FilterIdle /\ ReadableIdle

SpecVerify == InitVerify /\ [][VerNext]_vars

\* generate_all_forms of the three dictionary builders, called on a base word
InitForms == FormsInit /\ GenIdle /\ RefIdle /\ VerIdle /\ BuildIdle /\ FixIdle /\ FilterIdle /\ ReadableIdle

SpecForms == InitForms /\ [][FormsNext]_vars

\* create_best_readable_dictionary.py or create_truly_readable_dictionary.py,
\* run from the command line
InitBuild == BuildInit /\ GenIdle /\ RefIdle /\ VerIdle /\ FormsIdle /\ FixIdle /\ FilterIdle /\ ReadableIdle

SpecBuild == InitBuild /\ [][BuildNext]_vars

\* fix_dictionary_duplicates.py, scripts/fix_dictionary_size.py or
\* data/words_research/fix_dictionary_count.py, run from the command line
InitFix == FixInit /\ GenIdle /\ RefIdle /\ VerIdle /\ FormsIdle /\ BuildIdle /\ FilterIdle /\ ReadableIdle

SpecFix == InitFix /\ [][FixNext]_vars

\* data/words_research/filter_with_claude.py, run from the command line
InitFilter == FilterInit /\ GenIdle /\ RefIdle /\ VerIdle /\ FormsIdle /\ BuildIdle /\ FixIdle /\ ReadableIdle

SpecFilter == InitFilter /\ [][FilterNext]_vars

\* create_readable_dictionary.py, run from the command line, or one call of
\* ReadabilityScorer.calculate_readability_score
InitReadable == ReadableInit /\ GenIdle /\ RefIdle /\ VerIdle /\ FormsIdle /\ BuildIdle /\ FixIdle /\ FilterIdle

SpecReadable == InitReadable /\ [][ReadableNext]_vars

-----------------------------------------------------------------------------
(* Claims                                                                  *)

\* C1: when the cycle loop of the generator ends because the target is
\* reached, the final word set and the output file hold exactly target_size
\* words.  (Stated as claimed; the code violates it.)
C1_ExactSizeOnTarget ==
    (gpc = "done" /\ end_reason = "target") =>
        /\ Cardinality(final_words) = opts.target_size
        /\ Len(out_file) = opts.target_size

\* C2: a run of the generator that leaves the loop by stall or by max_cycles
\* short of a positive target ends with a non-zero status and is not
\* reported as finished.  (Stated as claimed; the code violates it.)
C2_ShortfallIsFatal ==
    ( /\ gpc = "done"
      /\ end_reason \in {"stalled", "max_cycles"}
      /\ opts.target_size > 0
      /\ Cardinality(final_words) < opts.target_size )
    => (exit_status # 0 /\ ~finished)

\* C3: no line of the output refine_wordlist writes is a placeholder.
\* (Stated as claimed; the code violates it.)
C3_NoPlaceholderWritten ==
    written => \A i \in 1..Len(output) : ~IsPlaceholder(output[i])

\* C4: no line of the output refine_wordlist writes is a banned word.
\* (Stated as claimed; the code violates it.)
C4_NoBannedWritten ==
    written => \A i \in 1..Len(output) : output[i] \notin BANNED

\* C5: refine_wordlist keeps len(words) at the required size after the purge,
\* after every processed record and after the fill; an input of another
\* length ends the run before anything is changed or written; a written
\* output has the required number of lines and the final length check never
\* fires.
C5_LengthKept ==
    /\ rpc \in {"call", "recs"} => Len(words) = RequiredSize
    /\ rend \in {"ok", "api_failure", "drifted"} => Len(words) = RequiredSize
    /\ Len(ReadWords(input_file)) # RequiredSize =>
          /\ rpc \in {"start", "done"}
          /\ rend \in {"none", "bad_input"}
          /\ words = <<>>
          /\ ~log.open
          /\ ~written
    /\ written => Len(output) = RequiredSize
    /\ rend # "drifted"

\* C5 witness: an output was written after the purge put a placeholder in, a
\* record was rejected and logged, and the fill replaced a placeholder
C5_Witness ==
    /\ written
    /\ Len(placeholders) >= 2
    /\ Len(log.rows) >= 1
    /\ \E i \in 1..Len(output) : output[i] \notin wordset

\* C6, the states: no call makes more than max_retries attempts, and a run
\* that ended on an API failure used every attempt, has a non-zero status
\* and produced no result (no "finished", no output file)
C6_RetryInv ==
    /\ gpc # "idle" =>
          /\ attempts <= opts.max_retries
          /\ end_reason = "api_failure" =>
                /\ attempts = opts.max_retries
                /\ gpc = "done"
                /\ exit_status # 0
                /\ ~finished
    /\ rpc # "idle" =>
          /\ rattempts <= ropts.max_retries
          /\ rend = "api_failure" =>
                /\ rattempts = ropts.max_retries
                /\ rpc = "done"
                /\ rstatus # 0
                /\ ~written

\* C6, the steps: each failed attempt doubles the wait (2 s after the first);
\* once a call has used its attempts the only step is the abort: the batch
\* index does not move, the list is not touched, nothing is written
C6_RetryStep ==
    /\ attempts' = attempts + 1 => wait' = (IF attempts = 0 THEN 2 ELSE 2 * wait)
    /\ rattempts' = rattempts + 1 =>
          rwait' = (IF rattempts = 0 THEN 2 ELSE 2 * rwait)
    /\ (gpc = "query" /\ attempts >= opts.max_retries) =>
          /\ end_reason' = "api_failure"
          /\ final_words' = final_words
          /\ out_file' = out_file
    /\ (rpc = "call" /\ bi <= NumBatches /\ rattempts >= ropts.max_retries) =>
          /\ rend' = "api_failure"
          /\ bi' = bi
          /\ words' = words
          /\ ~written'

\* C6: every external model call makes at most max_retries attempts with a
\* doubling wait, and when all fail the run aborts: the batch is not
\* skipped, no later batch is processed, no output is written
C6_RetriesBoundedThenAbort == []C6_RetryInv /\ [][C6_RetryStep]_vars

\* C6 witness: refine_wordlist aborted after two failed attempts (waits 2 s
\* and 4 s) on a batch that is not the last one, nothing written
C6_Witness ==
    /\ rend = "api_failure"
    /\ rattempts = 2
    /\ rwait = 4
    /\ bi < NumBatches
    /\ ~written

\* C7: a response that does not parse is a retryable failure of its batch:
\* the batch is requested again and an attempt of the retry budget is used.
\* (Stated as claimed; the code violates it.)
C7_MalformedIsRetried ==
    [][malformed' # malformed => (bi' = bi /\ rattempts' = rattempts + 1)]_vars

\* C8, the steps: an inner iteration of alphabet_pass that stays in the
\* while loop has added at least one new word
C8_IterationAdds ==
    (gpc = "query" /\ gpc' = "query" /\ attempts' # attempts + 1) =>
        /\ seen # seen'
        /\ seen \subseteq seen'
        /\ added' > added

\* C8: with max_cycles > 0 the generator runs at most max_cycles passes,
\* cycle max_cycles + 1 ends the loop as aborted, every pass returns (or the
\* process ends), and the run terminates
C8_BoundedAndTerminates ==
    /\ [](opts.max_cycles > 0 =>
            /\ passes <= opts.max_cycles
            /\ cycle > opts.max_cycles => end_reason = "max_cycles")
    /\ [][C8_IterationAdds]_vars
    /\ [](gpc \in {"letter", "query"} => <>(gpc \in {"endpass", "done"}))
    /\ (opts.max_cycles > 0 => <>(gpc = "done"))

\* C8 witness: the run ended on the cycle guard after max_cycles = 2 passes
C8_Witness ==
    /\ gpc = "done"
    /\ end_reason = "max_cycles"
    /\ opts.max_cycles = 2
    /\ passes = 2
    /\ cycle = 3

\* C9 as claimed: after a pass that added nothing short of the target, the
\* run stops if loosening is off or the threshold is at its floor, and in
\* every other case the threshold is relaxed and the loop goes on.
\* (The code violates it.)
C9_StopsOnlyAtFloor ==
    [][(gpc = "endpass" /\ ~TargetHit /\ added = 0) =>
          IF ~opts.auto_loosen \/ freq_current <= opts.min_freq
          THEN end_reason' = "stalled"
          ELSE freq_current' < freq_current /\ gpc' = "cycle"]_vars

\* C9 amended, the step after a pass that added nothing short of the target
C9_StallStep ==
    (gpc = "endpass" /\ ~TargetHit /\ added = 0) =>
        IF ~opts.auto_loosen \/ freq_current - opts.loosen_step < opts.min_freq
        THEN /\ end_reason' = "stalled"
             /\ gpc' = "after_loop"
             /\ freq_current' = freq_current
        ELSE /\ freq_current' = freq_current - opts.loosen_step
             /\ end_reason' = "none"
             /\ gpc' = "cycle"

\* C9 amended, the step at the top of the loop: the next pass runs unless the
\* cycle guard trips
C9_LoopStep ==
    gpc = "cycle" =>
        IF opts.max_cycles # 0 /\ cycle + 1 > opts.max_cycles
        THEN end_reason' = "max_cycles" /\ passes' = passes
        ELSE gpc' = "letter" /\ passes' = passes + 1

\* C9 amended: after a pass that added nothing short of the target, the run
\* stops if and only if loosening is off or one more step would take the
\* threshold below min_freq; otherwise the threshold is relaxed and the loop
\* goes on, running another pass unless max_cycles is reached
C9_StopsWhenStepCrossesFloor == [][C9_StallStep /\ C9_LoopStep]_vars

\* C9 witness: a run with loosening on that stalled with its threshold
\* strictly above the floor, after having relaxed once
C9_Witness ==
    /\ end_reason = "stalled"
    /\ opts.auto_loosen
    /\ freq_current > opts.min_freq
    /\ freq_current < opts.freq_threshold

C11_ThresholdNeverRises ==
    [][/\ freq_current' <= freq_current
       /\ gpc # "after_loop" => final_words \subseteq final_words']_vars

\* C12, the step of the surplus trim: the kept words are target_size words of
\* the set, or all its pattern-valid words if there are fewer; every kept word
\* is pattern-valid and ranks strictly above every dropped pattern-valid word
\* in the order on (frequency, text), in which two different words never tie
C12_TrimStep ==
    (gpc = "after_loop" /\ Surplus) =>
        LET valid == {w \in final_words :
                         WordReMatch(w, opts.min_length, opts.max_length)}
            Above(k, d) == \/ Zipf(k) > Zipf(d)
                           \/ Zipf(k) = Zipf(d) /\ StrLess(d, k)
        IN  /\ final_words' \subseteq valid
            /\ Cardinality(final_words') =
                  (IF Cardinality(valid) < opts.target_size
                   THEN Cardinality(valid) ELSE opts.target_size)
            /\ \A k \in final_words', d \in valid \ final_words' : Above(k, d)
            /\ \A x, y \in valid : x # y => (Above(x, y) \/ Above(y, x))
            /\ Range(out_file') = final_words'
            /\ Len(out_file') = Cardinality(final_words')

C13_FillStep ==
    (rpc = "call" /\ bi > NumBatches) =>
        LET P == SelectSeq([i \in 1..Len(words) |-> i],
                           LAMBDA i : IsPlaceholder(words[i]))
            E == SelectSeq(CommonPool,
                           LAMBDA w : /\ IsAlpha(w)
                                      /\ w \notin bloom
                                      /\ w \notin bloom_fp
                                      /\ ~obvious_bad(w, ropts.freq_threshold))
            n == IF placeholders = <<>> THEN 0
                 ELSE IF Len(E) < Len(P) THEN Len(E) ELSE Len(P)
        IN  /\ Len(words') = Len(words)
            /\ \A k \in 1..n : words'[P[k]] = E[k]
            /\ \A i \in 1..Len(words) :
                  (\A k \in 1..n : P[k] # i) => words'[i] = words[i]
            /\ bloom' = bloom \cup {E[k] : k \in 1..n}

C14_EveryChangeLogged ==
    (rpc \in {"call", "recs", "done"} /\ log.open) =>
        LET before == Range(ReadWords(input_file)) \cup Range(placeholders)
            Row(k) == log.rows[k]
        IN  /\ \A w \in before \ Range(words) :
                  \E k \in 1..Len(log.rows) : Row(k)[1] = w
            /\ \A w \in Range(words) \ Range(ReadWords(input_file)) :
                  \E k \in 1..Len(log.rows) : Row(k)[2] = w

\* C15, the states: once main has exited on a dictionary file, the verdict
\* is pass exactly when the stripped non-blank lines are ExpectedCount many,
\* pairwise different, each of length >= 2 and each alphabetic, and the exit
\* status is 0 exactly when the verdict is pass; without a file there is no
\* pass verdict and the status is not 0
C15_VerdictInv ==
    vpc = "done" =>
        LET ls == dictionary_file.lines
            ws == {Strip(ls[i]) : i \in {j \in 1..Len(ls) : Strip(ls[j]) # <<>>}}
            n  == Cardinality({j \in 1..Len(ls) : Strip(ls[j]) # <<>>})
            structural ==
                /\ n = ExpectedCount
                /\ Cardinality(ws) = n
                /\ \A w \in ws : Len(w) >= 2
                /\ \A w \in ws : \A i \in 1..Len(w) :
                      w[i] \in LowerChars \cup UpperChars \cup NonAsciiLetters
        IN  /\ (vstatus = 0) <=> (verdict = "pass")
            /\ (verdict = "pass") <=> (dictionary_file.exists /\ structural)
            /\ vstatus \in {0, 1}

\* C15, the steps: the advisory checks leave all_good alone, and the verdict
\* that is returned is all_good as the structural checks left it
C15_AdvisoryStep ==
    /\ vpc \in {"homophones", "problematic"} => all_good' = all_good
    /\ verdict' # verdict => (verdict' = "pass") = all_good

\* C15: run_all_checks passes exactly when the structural checks hold (count,
\* no duplicates, length >= 2, alphabetic); homophone and problematic-word
\* findings never change the verdict; the exit status is 0 iff the verdict
\* is pass
C15_VerdictIsStructural == []C15_VerdictInv /\ [][C15_AdvisoryStep]_vars

\* C15 witness: a dictionary with a homophone group and a problematic word
\* passed and the process exited with status 0
C15_Witness ==
    /\ vpc = "done"
    /\ vstatus = 0
    /\ found_homophones # {}
    /\ problematic_words # {}

\* C16 as claimed: a dictionary passes only if every entry is alphabetic,
\* lower case, ASCII, of length 2 to 12 and no placeholder.
\* (The code violates it.)
C16_PassImpliesWellFormed ==
    verdict = "pass" =>
        \A i \in 1..Len(self_words) :
            /\ \A j \in 1..Len(self_words[i]) : self_words[i][j] \in LowerChars
            /\ Len(self_words[i]) >= 2
            /\ Len(self_words[i]) <= 12
            /\ ~IsPlaceholder(self_words[i])

\* C17 as claimed: every form generate_all_forms returns, in each variant,
\* has 2 to 12 characters and is alphabetic and lower case, the forms of the
\* irregular tables and the base word included.  (The code violates it.)
C17_FormsWellFormed ==
    fpc = "returned" =>
        \A f \in forms :
            /\ Len(f) >= 2
            /\ Len(f) <= 12
            /\ \A i \in 1..Len(f) :
                  f[i] \in LowerChars \cup NonAsciiLetters

\* C18 as claimed: in create_best and create_truly a base word that is a key
\* of a table of irregular forms (verbs or plurals) yields the base and the
\* table's forms only, no form of a regular suffix rule.
\* (create_best violates it.)
C18_IrregularOnly ==
    fpc = "returned" =>
        /\ (variant = "best" /\ base \in TableKeys(irregular_verbs)) =>
              forms \subseteq {base} \cup TableForms(irregular_verbs, base)
        /\ (variant = "best" /\ base \in TableKeys(irregular_plurals)) =>
              forms \subseteq {base} \cup TableForms(irregular_plurals, base)
        /\ (variant = "truly" /\ base \in TableKeys(irregular)) =>
              forms \subseteq {base} \cup TableForms(irregular, base)

\* C19 as claimed: the word list create_best_readable_dictionary.main writes
\* has no duplicate entries, the pattern fill and the final padding included.
\* (The code violates it.)
C19_BestNoDuplicates ==
    (script = "best" /\ bpc = "done") =>
        Len(saved) = Cardinality(Range(saved))

\* C20 as claimed: every entry create_truly_readable_dictionary.main writes
\* is alphabetic, lower case, ASCII and 2 to 12 characters long, whatever
\* list or loop it came from.  (The code violates it.)
C20_TrulyEntriesWellFormed ==
    (script = "truly" /\ bpc = "done") =>
        \A i \in 1..Len(saved) :
            /\ Len(saved[i]) >= 2
            /\ Len(saved[i]) <= 12
            /\ \A j \in 1..Len(saved[i]) : saved[i][j] \in LowerChars

\* C27 as claimed: every word alphabet_pass adds to final_words was not
\* banned, matched ^[a-z]{min,max}$, had frequency >= the threshold of the
\* pass and was not yet in final_words, and it is appended to the output
\* file exactly once.  (The code violates the last part.)
C27_AddedValidAndWrittenOnce ==
    [][(gpc = "query" /\ final_words' # final_words) =>
        LET new == final_words' \ final_words
            n   == Len(out_file)
        IN  /\ \A w \in new :
                  /\ w \notin DEFAULT_BANNED
                  /\ WordReMatch(w, opts.min_length, opts.max_length)
                  /\ Zipf(w) >= freq_current
            /\ Len(out_file') = n + Cardinality(new)
            /\ SubSeq(out_file', 1, n) = out_file
            /\ {out_file'[i] : i \in (n + 1)..Len(out_file')} = new]_vars

\* C30 as claimed: the number of accepted words alphabet_pass counts for a
\* letter (len(seen)) never exceeds per_letter_max.  (The code violates it.)
C30_PerLetterCapKept ==
    [][(gpc = "query" /\ final_words' # final_words) =>
        Cardinality(seen \cup (final_words' \ final_words))
            <= opts.per_letter_max]_vars

\* C28, the state part: every entry of the list is in the seen-filter
C28_ListInFilter == \A i \in 1..Len(words) : words[i] \in bloom

\* C28, the step part: the filter only grows, and an entry that is not a
\* placeholder and gains an occurrence in the list (a model replacement or a
\* reserve filler) was not in the filter before the step, hence neither in
\* the list nor removed from it earlier, and occurs once
C28_AddStep ==
    /\ bloom \subseteq bloom'
    /\ rpc # "start" =>
          \A w \in Range(words') :
              LET before == Cardinality({i \in 1..Len(words) : words[i] = w})
                  after  == Cardinality({i \in 1..Len(words') : words'[i] = w})
              IN  (after > before /\ ~IsPlaceholder(w)) =>
                      (w \notin bloom /\ after = 1)

\* C28: in refine_wordlist a removed word is never added back and no model
\* replacement or reserve filler duplicates a word of the list: every entry
\* of the list is in the seen-filter, the filter only grows, and a candidate
\* found in the filter is skipped
C28_SeenNeverReadded == []C28_ListInFilter /\ [][C28_AddStep]_vars

\* C28 witness: a rejected word was replaced by a model suggestion, a
\* placeholder was filled from the reserve, and the rejected word is not in
\* the finished list
C28_Witness ==
    /\ rend = "ok"
    /\ placeholders # <<>>
    /\ \A i \in 1..Len(words) : ~IsPlaceholder(words[i])
    /\ \E r \in 1..Len(log.rows) :
          /\ ~IsPlaceholder(log.rows[r][2])
          /\ log.rows[r][1] \notin Range(words)
          /\ log.rows[r][2] \in Range(words)

\* C24, the state part: when fix_dictionary_duplicates.main is done it has
\* written exactly 65536 pairwise-distinct entries
C24_WrittenInv ==
    (tool = "duplicates" /\ xpc = "done") =>
        /\ wrote
        /\ Len(dict_lines) = FixTarget
        /\ Cardinality(Range(dict_lines)) = FixTarget

\* C24, the write step: with U the first occurrences of the stripped,
\* non-blank input lines in their original order, the file written starts
\* with the first 65536 entries of U, and every entry after U is a numbered
\* word that is not in U
C24_WriteStep ==
    (tool = "duplicates" /\ ~wrote /\ wrote') =>
        LET S == StrippedLines(dict_lines)
            P == SelectSeq([i \in 1..Len(S) |-> i],
                           LAMBDA i : \A j \in 1..(i - 1) : S[j] # S[i])
            U == [k \in 1..Len(P) |-> S[P[k]]]
            n == IF Len(U) < FixTarget THEN Len(U) ELSE FixTarget
        IN  /\ Len(dict_lines') = FixTarget
            /\ \A k \in 1..n : dict_lines'[k] = U[k]
            /\ \A k \in (n + 1)..FixTarget :
                  /\ dict_lines'[k] \notin Range(U)
                  /\ \E idx \in 0..(2 * FixTarget) :
                        dict_lines'[k] = <<"w", "o", "r", "d">> \o ZeroPad(idx, 5)

C25_SizeExactAfterRun ==
    (tool = "size" /\ xpc = "done") =>
        Len(StrippedLines(dict_lines)) = FixTarget

\* C29, the state part: when fix_dictionary_count is done, it has rewritten
\* the file only with exactly 65536 words; at 65536 words already, with too
\* few replacement words, or over size it has not written and has printed a
\* notice or an error
C29_DoneInv ==
    (tool = "count" /\ xpc = "done") =>
        /\ wrote => /\ Len(StrippedLines(dict_lines)) = FixTarget
                    /\ Len(dict_lines) = FixTarget
                    /\ "updated" \in printed
        /\ ~wrote => ("already" \in printed \/ "ERROR" \in printed)
        /\ current_count = FixTarget => (~wrote /\ "already" \in printed)
        /\ current_count > FixTarget => (~wrote /\ "ERROR" \in printed)
        /\ (current_count < FixTarget /\ Len(replacement_words) < words_needed)
              => (~wrote /\ "ERROR" \in printed)

\* C29, the step part: the file changes only in the step that writes it
C29_FrameStep ==
    tool = "count" =>
        /\ ~wrote' => dict_lines' = dict_lines
        /\ dict_lines' # dict_lines => Len(dict_lines') = FixTarget

\* C29: fix_dictionary_count rewrites the dictionary file only when the
\* resulting list has exactly 65536 words; otherwise the file is left
\* unchanged and an error or notice is reported
C29_RewriteOnlyWhenExact == []C29_DoneInv /\ [][C29_FrameStep]_vars

\* C29 witness: the dictionary was over size, the frequency list supplied a
\* word (the loop stops after its first append), nothing was added and the
\* file was not written
C29_Witness ==
    /\ tool = "count"
    /\ xpc = "done"
    /\ current_count > FixTarget
    /\ replacement_words # <<>>
    /\ ~wrote
    /\ "ERROR" \in printed

\* C26 as claimed: run_multi_stage_filtering(target_count) returns exactly
\* target_count words whenever the input list has at least target_count
\* words.  (The code violates it.)
C26_ExactTargetReturned ==
    (wpc = "done" /\ Len(all_words_in) >= FilterTarget) =>
        Len(current_words) = FilterTarget

\* C21 as claimed: when a dictionary builder reaches 65536 entries only by
\* appending synthetic numbered names, its report flags the result as
\* degraded instead of reporting plain success.  (The code violates it.)
C21_SyntheticFillFlagged ==
    (entry = "main" /\ ypc = "done" /\ "saved" \in said
        /\ Len(output_words) > Len(selected)) =>
        "degraded" \in said

\* C22 as claimed: the candidate pool create_readable_dictionary scores and
\* selects from holds each word at most once, so the selected list has no
\* duplicate words.  (The code violates it.)
C22_PoolDeduplicated ==
    entry = "main" =>
        /\ \A i, j \in 1..Len(words_with_position) :
              i # j => words_with_position[i][1] # words_with_position[j][1]
        /\ \A i, j \in 1..Len(selected) : i # j => selected[i] # selected[j]

\* C23: the weights of calculate_readability_score sum to 1.0 (100
\* hundredths), so for every word and position the total is the weighted sum
\* of the eight criterion scores, lies in [0, 1] (0..1000 thousandths) and is
\* 1.0 only when every criterion scores 1.0
C23_WeightsSumToOne ==
    /\ weights.syllable + weights.length + weights.dale_chall + weights.cefr
         + weights.frequency + weights.phonetic + weights.clean
         + weights.appropriate = 100
    /\ \A i \in 1..Len(scored_words) :
          LET s == scored_words[i]
              crit == <<s.syllable, s.length, s.dale_chall, s.cefr, s.frequency,
                        s.phonetic, s.clean, s.appropriate>>
              w    == <<weights.syllable, weights.length, weights.dale_chall,
                        weights.cefr, weights.frequency, weights.phonetic,
                        weights.clean, weights.appropriate>>
              RECURSIVE Dot(_)
              Dot(k) == IF k = 0 THEN 0 ELSE crit[k] * w[k] + Dot(k - 1)
          IN  /\ s.total = Dot(8)
              /\ 0 <= s.total
              /\ s.total <= 1000
              /\ s.total = 1000 <=> \A k \in 1..8 : crit[k] = 10

\* C23 witness: calculate_readability_score was called on a word that scores
\* 1.0 on every criterion, and on it the total is 1.0
C23_Witness ==
    /\ entry = "score"
    /\ ypc = "done"
    /\ scored_words[1].word = <<"t", "h", "e">>
    /\ scored_words[1].total = 1000

====
